---- MODULE Spec2Model ----
(***************************************************************************)
(* A model of pyspark/streaming/dstream.py: the lazy graph of DStream      *)
(* nodes with the folding of consecutive transformations, the window       *)
(* parameter validation, and the per-tick functions of the windowed        *)
(* reduction and of the keyed state.                                       *)
(*                                                                         *)
(* Durations are kept in milliseconds, as the JVM keeps them; the          *)
(* arguments of window() are whole seconds, as its signature says.         *)
(* An Optional value is <<>> (None) or <<v>>.                              *)
(***************************************************************************)
EXTENDS Integers, Sequences, FiniteSets, TLC

VARIABLES
    nodes,      \* the DStream objects created so far, in creation order
    lastCall,   \* the last construction call: its arguments and its outcome
    batches,    \* the batches the input stream has produced, one per tick
    winCall,    \* the arguments the windowed streams were constructed with
    prevR,      \* the reduced window kept by the incremental windowed stream
    out,        \* what the windowed streams emitted at the last tick
    stCall,     \* the arguments the state stream was constructed with
    stState,    \* the state kept by the state stream
    emitted,    \* the state maps emitted so far, one per tick
    calls,      \* the calls of updateFunc made so far, one set per tick
    invoked,    \* the number of compute-function invocations made so far
    tickOut,    \* the outcomes of the evaluations so far, one per tick
    files,      \* the output paths that exist
    sinkOut     \* the last invocation of the sink of saveAsTextFiles

graphVars == <<nodes, lastCall>>
winVars == <<winCall, prevR, out>>
stVars == <<stCall, stState, emitted, calls>>
runVars == <<invoked, tickOut, files, sinkOut>>
vars == <<nodes, lastCall, batches, winCall, prevR, out, stCall, stState, emitted, calls,
          invoked, tickOut, files, sinkOut>>

None == <<>>
Some(v) == <<v>>

(***************************************************************************)
(* Bounds of the model.                                                    *)
(***************************************************************************)
MaxNodes == 4
MaxFlags == 1
MaxCtorNodes == 3
MaxWindow == 2
MaxTick == 2
MaxLeaving == 2
MaxTicks == 4

\* the batch durations (ms) a StreamingContext is created with
RootDurations == {1000, 2000}
\* the seconds passed to window(): negative and zero values included
WindowArgs == (0 - 1)..MaxWindow
SlideArgs == {None} \cup {Some(s) : s \in WindowArgs}

(***************************************************************************)
(* Datasets.  An RDD is a sequence of <<key, value>> pairs.                *)
(***************************************************************************)
KeysOf(rdd) == {rdd[i][1] : i \in DOMAIN rdd}

RECURSIVE ValuesOf(_, _)
ValuesOf(rdd, k) ==
    IF rdd = <<>> THEN <<>>
    ELSE IF Head(rdd)[1] = k THEN <<Head(rdd)[2]>> \o ValuesOf(Tail(rdd), k)
         ELSE ValuesOf(Tail(rdd), k)

RECURSIVE SortedKeys(_)
SortedKeys(S) ==
    IF S = {} THEN <<>>
    ELSE LET m == CHOOSE x \in S : \A y \in S : x <= y
         IN <<m>> \o SortedKeys(S \ {m})

RECURSIVE Reduce(_, _, _)
Reduce(func(_, _), acc, vs) ==
    IF vs = <<>> THEN acc ELSE Reduce(func, func(acc, Head(vs)), Tail(vs))

\* rdd.reduceByKey(func): one pair per key, the key's values folded with func
RDD_reduceByKey(func(_, _), rdd) ==
    LET ks == SortedKeys(KeysOf(rdd))
    IN [i \in DOMAIN ks |->
          LET vs == ValuesOf(rdd, ks[i])
          IN <<ks[i], Reduce(func, Head(vs), Tail(vs))>>]

\* Python's sum(vs)
RECURSIVE SumSeq(_)
SumSeq(vs) == IF vs = <<>> THEN 0 ELSE Head(vs) + SumSeq(Tail(vs))

RDD_mapValues(f(_), rdd) == [i \in DOMAIN rdd |-> <<rdd[i][1], f(rdd[i][2])>>]

RDD_union(a, b) == a \o b

operator_add(x, y) == x + y
operator_sub(x, y) == x - y

\* the two-argument functions handed to reduceByKey and
\* reduceByKeyAndWindow: operator.add, operator.sub, and the two lambdas of
\* groupByKeyAndWindow, a.extend(b) or a and a[len(b):] ("dropSuffix",
\* a[:len(a) - len(b)], is no function of the code); "latest" is the user's
\* lambda a, b: b and "zero" the user's lambda a, b: 0, which take any value
Apply2(f, x, y) ==
    IF f = "add" THEN operator_add(x, y)
    ELSE IF f = "sub" THEN operator_sub(x, y)
    ELSE IF f = "latest" THEN y
    ELSE IF f = "zero" THEN 0
    ELSE IF f = "extend" THEN x \o y
    ELSE IF f = "dropSuffix" THEN SubSeq(x, 1, Len(x) - Len(y))
    ELSE SubSeq(x, Len(y) + 1, Len(x))

\* no function given (None)
NoFunc == ""

\* the predicates handed as filterFunc: kv[1] > 0 and kv[1] > 1
FilterFuncs == {"positive", "gt1"}

Satisfies(f, kv) == IF f = "positive" THEN kv[2] > 0 ELSE kv[2] > 1

(***************************************************************************)
(* The functions handed to transform().  "dbl" takes the rdd alone,        *)
(* "addt" takes (time, rdd); "rbk" is the one-argument function that       *)
(* combineByKey hands to transform() for reduceByKey(operator.add), and    *)
(* "rbkExtend" the one for reduceByKey(lambda a, b: a.extend(b) or a).     *)
(* The others are the one-argument functions that map, filter, mapValues   *)
(* and mapPartitions hand to transform() inside the derived operators:     *)
(*   one       map(lambda x: 1)              countByWindow                 *)
(*   key1      map(lambda x: (1, x))         reduceByWindow                *)
(*   value     map(lambda kv: kv[1])         reduceByWindow, reduce        *)
(*   pair1     map(lambda x: (x, 1))         countByValueAndWindow         *)
(*   positive  filter(lambda kv: kv[1] > 0)  countByValueAndWindow         *)
(*   list      mapValues(lambda x: [x])      groupByKeyAndWindow           *)
(*   iter      mapValues(ResultIterable)     groupByKeyAndWindow           *)
(*   countPart mapPartitions(lambda i: [sum(1 for _ in i)])   count        *)
(*   keyNone   map(lambda x: (None, x))      reduce                        *)
(* and "fst" is the user's map(lambda kv: kv[0]).                          *)
(***************************************************************************)
UserFuncs == {"dbl", "addt"}

\* functions whose arity is wrong for transform(): a function of no argument,
\* a function of three arguments, and the bound method obj.m of
\* def m(self): ..., which takes no argument
BadArityFuncs == {"f0", "f3", "m0"}

\* the functions handed to transformWith(): "union" takes (a, b); "dbl"
\* takes one argument, and so does "m1", the bound method obj.m of
\* def m(self, rdd): ...
TransformWithFuncs == {"union", "dbl", "m1"}

\* "chk" is lambda rdd: rdd.mapValues(check), check raising on an odd value
RaisingFuncs == {"chk"}

\* func.__code__.co_argcount: the number of positional parameters of the
\* code object; for a bound method it counts self
co_argcount(f) ==
    IF f \in {"addt", "union", "m1"} THEN 2
    ELSE IF f = "f0" THEN 0
    ELSE IF f = "f3" THEN 3
    ELSE 1

\* the number of positional arguments the callable takes when it is called
Positional(f) ==
    IF f \in {"addt", "union"} THEN 2
    ELSE IF f \in {"f0", "m0"} THEN 0
    ELSE IF f = "f3" THEN 3
    ELSE 1

Dbl(v) == 2 * v

\* the key that stands for None in reduce(): one key for every element
NoneKey == 0

\* a Dataset is modelled as one partition, so mapPartitions sees all of it
Call(f, t, rdd) ==
    IF f = "dbl" THEN RDD_mapValues(Dbl, rdd)
    ELSE IF f = "addt" THEN [i \in DOMAIN rdd |-> <<rdd[i][1], rdd[i][2] + t>>]
    ELSE IF f = "one" THEN [i \in DOMAIN rdd |-> 1]
    ELSE IF f = "key1" THEN [i \in DOMAIN rdd |-> <<1, rdd[i]>>]
    ELSE IF f = "value" THEN [i \in DOMAIN rdd |-> rdd[i][2]]
    ELSE IF f = "pair1" THEN [i \in DOMAIN rdd |-> <<rdd[i], 1>>]
    ELSE IF f = "fst" THEN [i \in DOMAIN rdd |-> rdd[i][1]]
    ELSE IF f = "positive" THEN SelectSeq(rdd, LAMBDA kv : kv[2] > 0)
    ELSE IF f = "list" THEN [i \in DOMAIN rdd |-> <<rdd[i][1], <<rdd[i][2]>>>>]
    ELSE IF f \in {"iter", "chk"} THEN rdd
    ELSE IF f = "countPart" THEN <<Len(rdd)>>
    ELSE IF f = "keyNone" THEN [i \in DOMAIN rdd |-> <<NoneKey, rdd[i]>>]
    ELSE IF f = "rbkExtend"
         THEN RDD_reduceByKey(LAMBDA x, y : Apply2("extend", x, y), rdd)
    ELSE RDD_reduceByKey(operator_add, rdd)

\* a composed function lambda t, rdd: func(t, prev_func(t, rdd)) is kept as
\* the sequence of the functions it calls, innermost first
RECURSIVE CallAll(_, _, _)
CallAll(fs, t, rdd) ==
    IF fs = <<>> THEN rdd ELSE CallAll(Tail(fs), t, Call(Head(fs), t, rdd))

\* whether the call f(t, rdd) raises: "chk" on an odd value, and "m0", which
\* takes no argument, on every call
Raises(f, t, rdd) ==
    IF f = "chk" THEN \E i \in DOMAIN rdd : rdd[i][2] % 2 = 1
    ELSE f = "m0"

\* mutant: an error of a function is caught and the empty Dataset returned
RECURSIVE CallComposed_caught(_, _, _)
CallComposed_caught(fs, t, rdd) ==
    IF fs = <<>> THEN [err |-> FALSE, rdd |-> rdd, invoked |-> 0]
    ELSE IF Raises(Head(fs), t, rdd) THEN [err |-> FALSE, rdd |-> <<>>, invoked |-> 1]
    ELSE LET r == CallComposed_caught(Tail(fs), t, Call(Head(fs), t, rdd))
         IN [r EXCEPT !.invoked = r.invoked + 1]

\* the composed function called with functions that may raise: whether it
\* raised, what it returned, and the number of functions that were invoked
RECURSIVE CallComposed(_, _, _)
CallComposed(fs, t, rdd) ==
    IF fs = <<>> THEN [err |-> FALSE, rdd |-> rdd, invoked |-> 0]
    ELSE IF Raises(Head(fs), t, rdd) THEN [err |-> TRUE, rdd |-> <<>>, invoked |-> 1]
    ELSE LET r == CallComposed(Tail(fs), t, Call(Head(fs), t, rdd))
         IN [r EXCEPT !.invoked = r.invoked + 1]

(***************************************************************************)
(* Nodes.                                                                  *)
(***************************************************************************)
\* DStream.__init__: a plain DStream wrapping a JVM stream of kind jkind
\* whose JVM parents are the streams of `parents`; window is the window
\* duration handed to the JVM (0 when the stream is no window)
DStream_init(jkind, parents, slide, window) ==
    [cls |-> "DStream", jkind |-> jkind, prev |-> parents, func |-> <<>>,
     is_cached |-> FALSE, is_checkpointed |-> FALSE, slide |-> slide,
     window |-> window, arg_prev |-> 0, arg_func |-> ""]

\* the JVM stream PythonReducedWindowedDStream of a plain DStream: it holds
\* jreduceFunc and jinvReduceFunc, closures over func, invFunc and filterFunc
ReducedWindowed_init(parent, func, invFunc, filterFunc, slide, window) ==
    [cls |-> "DStream", jkind |-> "reducedWindowed", prev |-> <<parent>>,
     func |-> <<func, invFunc, filterFunc>>,
     is_cached |-> FALSE, is_checkpointed |-> FALSE, slide |-> slide,
     window |-> window, arg_prev |-> 0, arg_func |-> ""]

IsFlagged(nd) == nd.is_cached \/ nd.is_checkpointed

\* mutant: the composition is the wrong way round
TransformedDStream_init_swapped(ns, prev, func) ==
    IF ns[prev].cls = "TransformedDStream" /\ ~IsFlagged(ns[prev])
    THEN [cls |-> "TransformedDStream", jkind |-> "transformed",
          prev |-> ns[prev].prev, func |-> <<func>> \o ns[prev].func,
          is_cached |-> FALSE, is_checkpointed |-> FALSE, slide |-> ns[prev].slide,
          window |-> 0, arg_prev |-> prev, arg_func |-> func]
    ELSE [cls |-> "TransformedDStream", jkind |-> "transformed",
          prev |-> <<prev>>, func |-> <<func>>,
          is_cached |-> FALSE, is_checkpointed |-> FALSE, slide |-> ns[prev].slide,
          window |-> 0, arg_prev |-> prev, arg_func |-> func]

\* mutant: the functions are composed but the parent is not replaced by the
\* grandparent
TransformedDStream_init_norewire(ns, prev, func) ==
    IF ns[prev].cls = "TransformedDStream" /\ ~IsFlagged(ns[prev])
    THEN [cls |-> "TransformedDStream", jkind |-> "transformed",
          prev |-> <<prev>>, func |-> Append(ns[prev].func, func),
          is_cached |-> FALSE, is_checkpointed |-> FALSE, slide |-> ns[prev].slide,
          window |-> 0, arg_prev |-> prev, arg_func |-> func]
    ELSE [cls |-> "TransformedDStream", jkind |-> "transformed",
          prev |-> <<prev>>, func |-> <<func>>,
          is_cached |-> FALSE, is_checkpointed |-> FALSE, slide |-> ns[prev].slide,
          window |-> 0, arg_prev |-> prev, arg_func |-> func]

\* TransformedDStream.__init__(prev, func).  arg_prev and arg_func record the
\* arguments of the call; the code keeps only prev and func.
TransformedDStream_init(ns, prev, func) ==
    IF ns[prev].cls = "TransformedDStream" /\ ~IsFlagged(ns[prev])
    THEN [cls |-> "TransformedDStream", jkind |-> "transformed",
          prev |-> ns[prev].prev, func |-> Append(ns[prev].func, func),
          is_cached |-> FALSE, is_checkpointed |-> FALSE, slide |-> ns[prev].slide,
          window |-> 0, arg_prev |-> prev, arg_func |-> func]
    ELSE [cls |-> "TransformedDStream", jkind |-> "transformed",
          prev |-> <<prev>>, func |-> <<func>>,
          is_cached |-> FALSE, is_checkpointed |-> FALSE, slide |-> ns[prev].slide,
          window |-> 0, arg_prev |-> prev, arg_func |-> func]

\* the outcome of a construction call: the nodes after it, the node returned
\* and the number of compute functions the call invoked
Ok(ns, ret) == [result |-> "ok", ns |-> ns, ret |-> ret, invoked |-> 0]
Raise(err, ns) == [result |-> err, ns |-> ns, ret |-> 0, invoked |-> 0]

\* mutant: the function is applied once when the node is constructed
transform_eager(ns, self, func) ==
    LET argc == IF co_argcount(func) = 1 THEN 2 ELSE co_argcount(func)
    IN IF argc # 2 THEN Raise("AssertionError", ns)
       ELSE [Ok(Append(ns, TransformedDStream_init(ns, self, func)), Len(ns) + 1)
                EXCEPT !.invoked = 1]

\* mutant: folding also stores the composed function in the parent
transform_rewritesParent(ns, self, func) ==
    LET argc == IF co_argcount(func) = 1 THEN 2 ELSE co_argcount(func)
        child == TransformedDStream_init(ns, self, func)
    IN IF argc # 2 THEN Raise("AssertionError", ns)
       ELSE Ok(Append([ns EXCEPT ![self].func = IF child.prev # <<self>> THEN child.func
                                                ELSE ns[self].func],
                      child),
               Len(ns) + 1)

\* DStream.transform(func)
transform(ns, self, func) ==
    LET argc == IF co_argcount(func) = 1 THEN 2 ELSE co_argcount(func)
    IN IF argc # 2 THEN Raise("AssertionError", ns)
       ELSE Ok(Append(ns, TransformedDStream_init(ns, self, func)), Len(ns) + 1)

\* mutant: the node is a TransformedDStream holding the function
transformWith_asTransformed(ns, self, func, other) ==
    LET argc == IF co_argcount(func) = 2 THEN 3 ELSE co_argcount(func)
    IN IF argc # 3 THEN Raise("AssertionError", ns)
       ELSE Ok(Append(ns, [DStream_init("transformed2", <<self, other>>, ns[self].slide, 0)
                              EXCEPT !.cls = "TransformedDStream", !.func = <<func>>]),
               Len(ns) + 1)

\* DStream.transformWith(func, other, keepSerializer)
transformWith(ns, self, func, other) ==
    LET argc == IF co_argcount(func) = 2 THEN 3 ELSE co_argcount(func)
    IN IF argc # 3 THEN Raise("AssertionError", ns)
       ELSE Ok(Append(ns, DStream_init("transformed2", <<self, other>>, ns[self].slide, 0)),
               Len(ns) + 1)

\* DStream._slideDuration, in ms (the property divides by 1000.0)
slideDurationOf(ns, self) == ns[self].slide

\* mutant: the slide durations are not compared
union_nocheck(ns, self, other) == transformWith(ns, self, "union", other)

\* DStream.union(other)
union(ns, self, other) ==
    IF slideDurationOf(ns, self) # slideDurationOf(ns, other)
    THEN Raise("ValueError", ns)
    ELSE transformWith(ns, self, "union", other)

\* Python's a % d for d # 0: the result has the sign of d
PyMod(a, d) == IF d > 0 THEN a % d ELSE 0 - ((0 - a) % (0 - d))

\* mutant: the slide duration is not validated
validate_window_param_noslide(ns, self, window, slide) ==
    LET duration == ns[self].slide
    IN IF duration = 0 THEN "ZeroDivisionError"
       ELSE IF PyMod(window * 1000, duration) # 0 THEN "ValueError"
       ELSE "ok"

\* DStream._validate_window_param(window, slide): "ok" or the error raised
validate_window_param(ns, self, window, slide) ==
    LET duration == ns[self].slide
    IN IF duration = 0 THEN "ZeroDivisionError"
       ELSE IF PyMod(window * 1000, duration) # 0 THEN "ValueError"
       ELSE IF slide # None /\ slide[1] # 0 /\ PyMod(slide[1] * 1000, duration) # 0
            THEN "ValueError"
       ELSE "ok"

\* StreamingContext._jduration(seconds) for whole seconds
jduration(seconds) == seconds * 1000

\* mutant: the slide duration is handed to the JVM as the window duration
window_slideAsWindow(ns, self, windowDuration, slideDuration) ==
    LET v == validate_window_param(ns, self, windowDuration, slideDuration)
    IN IF v # "ok" THEN Raise(v, ns)
       ELSE IF slideDuration = None
            THEN Ok(Append(ns, DStream_init("window", <<self>>, ns[self].slide,
                                            ns[self].slide)),
                    Len(ns) + 1)
            ELSE Ok(Append(ns, DStream_init("window", <<self>>, jduration(slideDuration[1]),
                                            jduration(slideDuration[1]))),
                    Len(ns) + 1)

\* DStream.window(windowDuration, slideDuration)
window(ns, self, windowDuration, slideDuration) ==
    LET v == validate_window_param(ns, self, windowDuration, slideDuration)
    IN IF v # "ok" THEN Raise(v, ns)
       ELSE IF slideDuration = None
            THEN Ok(Append(ns, DStream_init("window", <<self>>, ns[self].slide,
                                            jduration(windowDuration))),
                    Len(ns) + 1)
            ELSE Ok(Append(ns, DStream_init("window", <<self>>, jduration(slideDuration[1]),
                                            jduration(windowDuration))),
                    Len(ns) + 1)

\* the slide durations (ms) below 2100 that int((ms / 1000.0) * 1000) does
\* not give back: IEEE double arithmetic yields one less
FloatLossyMs == {1001 + 2 * i : i \in 0..11} \cup {2002 + 4 * i : i \in 0..11}

\* StreamingContext._jduration(self._slideDuration): the slide duration goes
\* through seconds as a float and back to ms
jduration_of_slide(ms) == IF ms \in FloatLossyMs THEN ms - 1 ELSE ms

\* DStream.map(f), filter(f), mapValues(f), mapPartitions(f): each ends in
\* transform() with a one-argument function of the rdd
map(ns, self, f) == transform(ns, self, f)

\* DStream.reduceByKey(func) = combineByKey(...) = transform(func)
reduceByKey(ns, self, func) ==
    transform(ns, self, IF func = "extend" THEN "rbkExtend" ELSE "rbk")

\* a statement sequence "r = <call>; <rest using r>": r is computed once and
\* rest(r) is the value of what follows
Bind(r, rest(_)) == CHOOSE y \in {rest(x) : x \in {r}} : TRUE

\* mutant: the durations are validated after reduceByKey has constructed
\* its stream
reduceByKeyAndWindow_lateValidate(ns, self, func, invFunc, windowDuration, slideDuration, filterFunc) ==
    Bind(reduceByKey(ns, self, func), LAMBDA reduced :
    LET v == validate_window_param(ns, self, windowDuration, slideDuration)
    IN IF v # "ok" THEN Raise(v, reduced.ns)
       ELSE IF invFunc # NoFunc
       THEN LET s == IF slideDuration = None
                     THEN jduration_of_slide(slideDurationOf(ns, self))
                     ELSE jduration(slideDuration[1])
            IN Ok(Append(reduced.ns,
                         ReducedWindowed_init(reduced.ret, func, invFunc, filterFunc,
                                              s, jduration(windowDuration))),
                  Len(reduced.ns) + 1)
       ELSE Bind(window(reduced.ns, reduced.ret, windowDuration, slideDuration),
                 LAMBDA w : IF w.result # "ok" THEN Raise(w.result, ns)
                            ELSE reduceByKey(w.ns, w.ret, func)))

\* DStream.reduceByKeyAndWindow(func, invFunc, windowDuration, slideDuration,
\* numPartitions, filterFunc): the construction of its nodes
reduceByKeyAndWindow(ns, self, func, invFunc, windowDuration, slideDuration, filterFunc) ==
    LET v == validate_window_param(ns, self, windowDuration, slideDuration)
    IN IF v # "ok" THEN Raise(v, ns)
       ELSE Bind(reduceByKey(ns, self, func), LAMBDA reduced :
            IF invFunc # NoFunc
            THEN LET s == IF slideDuration = None
                          THEN jduration_of_slide(slideDurationOf(ns, self))
                          ELSE jduration(slideDuration[1])
                 IN Ok(Append(reduced.ns,
                              ReducedWindowed_init(reduced.ret, func, invFunc, filterFunc,
                                                   s, jduration(windowDuration))),
                       Len(reduced.ns) + 1)
            ELSE Bind(window(reduced.ns, reduced.ret, windowDuration, slideDuration),
                      LAMBDA w : IF w.result # "ok" THEN Raise(w.result, ns)
                                 ELSE reduceByKey(w.ns, w.ret, func)))

\* DStream.reduce(func)
reduce(ns, self, func) ==
    Bind(map(ns, self, "keyNone"), LAMBDA keyed :
    Bind(reduceByKey(keyed.ns, keyed.ret, func), LAMBDA reduced :
    map(reduced.ns, reduced.ret, "value")))

\* DStream.count()
count(ns, self) ==
    Bind(map(ns, self, "countPart"), LAMBDA ones :
    reduce(ones.ns, ones.ret, "add"))

\* DStream.reduceByWindow(reduceFunc, invReduceFunc, windowDuration, slideDuration)
reduceByWindow(ns, self, func, invFunc, windowDuration, slideDuration) ==
    Bind(map(ns, self, "key1"), LAMBDA keyed :
    Bind(reduceByKeyAndWindow(keyed.ns, keyed.ret, func, invFunc,
                              windowDuration, slideDuration, NoFunc), LAMBDA reduced :
    IF reduced.result # "ok" THEN Raise(reduced.result, ns)
    ELSE map(reduced.ns, reduced.ret, "value")))

\* DStream.countByWindow(windowDuration, slideDuration)
countByWindow(ns, self, windowDuration, slideDuration) ==
    Bind(map(ns, self, "one"), LAMBDA ones :
    reduceByWindow(ones.ns, ones.ret, "add", "sub", windowDuration, slideDuration))

\* mutant: the counts that fell to 0 are not filtered out
countByValueAndWindow_nofilter(ns, self, windowDuration, slideDuration) ==
    Bind(map(ns, self, "pair1"), LAMBDA keyed :
    Bind(reduceByKeyAndWindow(keyed.ns, keyed.ret, "add", "sub",
                              windowDuration, slideDuration, NoFunc), LAMBDA counted :
    IF counted.result # "ok" THEN Raise(counted.result, ns) ELSE counted))

\* DStream.countByValueAndWindow(windowDuration, slideDuration)
countByValueAndWindow(ns, self, windowDuration, slideDuration) ==
    Bind(map(ns, self, "pair1"), LAMBDA keyed :
    Bind(reduceByKeyAndWindow(keyed.ns, keyed.ret, "add", "sub",
                              windowDuration, slideDuration, NoFunc), LAMBDA counted :
    IF counted.result # "ok" THEN Raise(counted.result, ns)
    ELSE map(counted.ns, counted.ret, "positive")))

\* mutant: the leaving step drops the values from the end of the list
groupByKeyAndWindow_dropSuffix(ns, self, windowDuration, slideDuration) ==
    Bind(map(ns, self, "list"), LAMBDA ls :
    Bind(reduceByKeyAndWindow(ls.ns, ls.ret, "extend", "dropSuffix",
                              windowDuration, slideDuration, NoFunc), LAMBDA grouped :
    IF grouped.result # "ok" THEN Raise(grouped.result, ns)
    ELSE map(grouped.ns, grouped.ret, "iter")))

\* DStream.groupByKeyAndWindow(windowDuration, slideDuration)
groupByKeyAndWindow(ns, self, windowDuration, slideDuration) ==
    Bind(map(ns, self, "list"), LAMBDA ls :
    Bind(reduceByKeyAndWindow(ls.ns, ls.ret, "extend", "dropPrefix",
                              windowDuration, slideDuration, NoFunc), LAMBDA grouped :
    IF grouped.result # "ok" THEN Raise(grouped.result, ns)
    ELSE map(grouped.ns, grouped.ret, "iter")))

(***************************************************************************)
(* The graph: construction calls in any order.                             *)
(***************************************************************************)
NoCall == [op |-> "none", self |-> 0, other |-> 0, w |-> 0, s |-> None,
           result |-> "ok", ret |-> 0, before |-> 0]

CallRec(op, self, other, w, s, r) ==
    [op |-> op, self |-> self, other |-> other, w |-> w, s |-> s,
     result |-> r.result, ret |-> r.ret, before |-> Len(nodes)]

\* the batch duration of StreamingContext(sc, 1)
BatchDuration == jduration(1)

\* no sink was invoked
NoSink == [t |-> 0, existed |-> FALSE, fault |-> "", raised |-> ""]

\* nothing was evaluated and nothing was written
NoRun ==
    /\ invoked = 0
    /\ tickOut = <<>>
    /\ files = {}
    /\ sinkOut = NoSink

\* the variables of the per-tick evaluation, where no tick is modelled
NoTicks ==
    /\ batches = <<>>
    /\ winCall = [w |-> 0, s |-> None]
    /\ prevR = None
    /\ out = [window |-> None, inc |-> None, naive |-> None]
    /\ stCall = [updateFunc |-> "", initialRDD |-> None]
    /\ stState = None
    /\ emitted = <<>>
    /\ calls = <<>>
    /\ NoRun

Init ==
    /\ nodes = <<DStream_init("input", <<>>, BatchDuration, 0)>>
    /\ lastCall = NoCall
    /\ NoTicks

Transform(n, f) ==
    /\ Len(nodes) < MaxNodes
    /\ LET r == transform(nodes, n, f)
       IN /\ nodes' = r.ns
          /\ lastCall' = CallRec("transform", n, 0, 0, None, r)
    /\ UNCHANGED <<batches, winVars, stVars, runVars>>

\* the number of flags set in the graph
FlagCount(ns) ==
    Cardinality({n \in DOMAIN ns : ns[n].is_cached})
    + Cardinality({n \in DOMAIN ns : ns[n].is_checkpointed})

Cache(n) ==
    /\ nodes[n].is_cached \/ FlagCount(nodes) < MaxFlags
    /\ nodes' = [nodes EXCEPT ![n].is_cached = TRUE]
    /\ lastCall' = [NoCall EXCEPT !.op = "cache", !.self = n, !.ret = n,
                                  !.before = Len(nodes)]
    /\ UNCHANGED <<batches, winVars, stVars, runVars>>

\* mutant: the storage level is also set on the parent of the node
Persist_flagsParent(n) ==
    /\ nodes[n].is_cached \/ FlagCount(nodes) < MaxFlags
    /\ nodes' = [i \in DOMAIN nodes |->
                    IF i = n \/ <<i>> = nodes[n].prev
                    THEN [nodes[i] EXCEPT !.is_cached = TRUE] ELSE nodes[i]]
    /\ lastCall' = [NoCall EXCEPT !.op = "persist", !.self = n, !.ret = n,
                                  !.before = Len(nodes)]
    /\ UNCHANGED <<batches, winVars, stVars, runVars>>

Persist(n) ==
    /\ nodes[n].is_cached \/ FlagCount(nodes) < MaxFlags
    /\ nodes' = [nodes EXCEPT ![n].is_cached = TRUE]
    /\ lastCall' = [NoCall EXCEPT !.op = "persist", !.self = n, !.ret = n,
                                  !.before = Len(nodes)]
    /\ UNCHANGED <<batches, winVars, stVars, runVars>>

Checkpoint(n) ==
    /\ nodes[n].is_checkpointed \/ FlagCount(nodes) < MaxFlags
    /\ nodes' = [nodes EXCEPT ![n].is_checkpointed = TRUE]
    /\ lastCall' = [NoCall EXCEPT !.op = "checkpoint", !.self = n, !.ret = n,
                                  !.before = Len(nodes)]
    /\ UNCHANGED <<batches, winVars, stVars, runVars>>

Next ==
    \/ \E n \in DOMAIN nodes, f \in UserFuncs : Transform(n, f)
    \/ \E n \in DOMAIN nodes : Cache(n)
    \/ \E n \in DOMAIN nodes : Persist(n)
    \/ \E n \in DOMAIN nodes : Checkpoint(n)

Spec == Init /\ [][Next]_vars

(***************************************************************************)
(* The construction calls that validate their arguments: window,           *)
(* reduceByKeyAndWindow and union, on streams of several slide durations.  *)
(* A raised error propagates out of the driver script, so no call follows  *)
(* a call that raised; the graph it leaves is the one before the call.     *)
(***************************************************************************)
InitCtor ==
    /\ \E d \in RootDurations : nodes = <<DStream_init("input", <<>>, d, 0)>>
    /\ lastCall = NoCall
    /\ NoTicks

Map(n) ==
    /\ Len(nodes) < MaxCtorNodes
    /\ lastCall.result = "ok"
    /\ LET r == transform(nodes, n, "dbl")
       IN /\ nodes' = r.ns
          /\ lastCall' = CallRec("transform", n, 0, 0, None, r)
    /\ UNCHANGED <<batches, winVars, stVars, runVars>>

Window(n, w, s) ==
    /\ Len(nodes) < MaxCtorNodes
    /\ lastCall.result = "ok"
    /\ LET r == window(nodes, n, w, s)
       IN /\ nodes' = r.ns
          /\ lastCall' = CallRec("window", n, 0, w, s, r)
    /\ UNCHANGED <<batches, winVars, stVars, runVars>>

ReduceByKeyAndWindow(n, hasInv, w, s) ==
    /\ Len(nodes) < MaxCtorNodes
    /\ lastCall.result = "ok"
    /\ LET r == reduceByKeyAndWindow(nodes, n, "add", IF hasInv THEN "sub" ELSE NoFunc,
                                     w, s, NoFunc)
       IN /\ nodes' = r.ns
          /\ lastCall' = CallRec(IF hasInv THEN "reduceByKeyAndWindowInv"
                                 ELSE "reduceByKeyAndWindow", n, 0, w, s, r)
    /\ UNCHANGED <<batches, winVars, stVars, runVars>>

Union(a, b) ==
    /\ Len(nodes) < MaxCtorNodes
    /\ lastCall.result = "ok"
    /\ LET r == union(nodes, a, b)
       IN /\ nodes' = r.ns
          /\ lastCall' = CallRec("union", a, b, 0, None, r)
    /\ UNCHANGED <<batches, winVars, stVars, runVars>>

NextCtor ==
    \/ \E n \in DOMAIN nodes : Map(n)
    \/ \E n \in DOMAIN nodes, w \in WindowArgs, s \in SlideArgs : Window(n, w, s)
    \/ \E n \in DOMAIN nodes, hasInv \in BOOLEAN, w \in WindowArgs, s \in SlideArgs :
          ReduceByKeyAndWindow(n, hasInv, w, s)
    \/ \E a \in DOMAIN nodes, b \in DOMAIN nodes : Union(a, b)

SpecCtor == InitCtor /\ [][NextCtor]_vars

(***************************************************************************)
(* The same calls in a driver that catches the error of a call and goes    *)
(* on: a call may follow a call that raised.  The record of a call also    *)
(* holds the outcome and the stream of the call before it.                 *)
(***************************************************************************)
RetryRec(op, self, other, w, s, r) ==
    [op |-> op, self |-> self, other |-> other, w |-> w, s |-> s,
     result |-> r.result, ret |-> r.ret, before |-> Len(nodes),
     prevResult |-> lastCall.result, prevSelf |-> lastCall.self]

RetryWindow(n, w, s) ==
    /\ Len(nodes) < MaxCtorNodes
    /\ LET r == window(nodes, n, w, s)
       IN /\ nodes' = r.ns
          /\ lastCall' = RetryRec("window", n, 0, w, s, r)
    /\ UNCHANGED <<batches, winVars, stVars, runVars>>

RetryReduceByKeyAndWindow(n, hasInv, w, s) ==
    /\ Len(nodes) < MaxCtorNodes
    /\ LET r == reduceByKeyAndWindow(nodes, n, "add", IF hasInv THEN "sub" ELSE NoFunc,
                                     w, s, NoFunc)
       IN /\ nodes' = r.ns
          /\ lastCall' = RetryRec(IF hasInv THEN "reduceByKeyAndWindowInv"
                                  ELSE "reduceByKeyAndWindow", n, 0, w, s, r)
    /\ UNCHANGED <<batches, winVars, stVars, runVars>>

RetryUnion(a, b) ==
    /\ Len(nodes) < MaxCtorNodes
    /\ LET r == union(nodes, a, b)
       IN /\ nodes' = r.ns
          /\ lastCall' = RetryRec("union", a, b, 0, None, r)
    /\ UNCHANGED <<batches, winVars, stVars, runVars>>

RetryArgs == 1..MaxWindow
RetrySlides == {None} \cup {Some(s) : s \in RetryArgs}

NextRetry ==
    \/ \E n \in DOMAIN nodes, w \in RetryArgs, s \in RetrySlides : RetryWindow(n, w, s)
    \/ \E n \in DOMAIN nodes, hasInv \in BOOLEAN, w \in RetryArgs, s \in RetrySlides :
          RetryReduceByKeyAndWindow(n, hasInv, w, s)
    \/ \E a \in DOMAIN nodes, b \in DOMAIN nodes : RetryUnion(a, b)

SpecRetry == InitCtor /\ [][NextRetry]_vars

(***************************************************************************)
(* The per-tick evaluation of the windowed streams.                        *)
(*                                                                         *)
(* The functions handed to the JVM (reduceFunc, invReduceFunc) are those   *)
(* of reduceByKeyAndWindow; what the JVM streams do with them at each tick *)
(* follows the description of the window engine: the window of tick t      *)
(* holds the parent's batches of the ticks in (t - window, t], and the     *)
(* incremental stream reduces in the batches that enter the window and     *)
(* inverse-reduces the batches that leave it.                              *)
(***************************************************************************)
RDD_filter(f(_), rdd) == SelectSeq(rdd, f)

\* the integer that stands for Python's None among the values of a Dataset
NoneValue == 0 - 1

\* "w is not None" for a value w of a Dataset reduced with func: only the
\* Datasets of lambda a, b: b hold None among their values, numbers and
\* lists are never None
is_not_None(func, w) == ~(func = "latest" /\ w = NoneValue)

\* a.leftOuterJoin(b): every pair (k, v) of a with every value w of k in b,
\* or with None when b has no value for k
RECURSIVE RDD_leftOuterJoin(_, _)
RDD_leftOuterJoin(a, b) ==
    IF a = <<>> THEN <<>>
    ELSE LET k == Head(a)[1]
             v == Head(a)[2]
             ws == ValuesOf(b, k)
         IN (IF ws = <<>> THEN << <<k, <<v, None>>>> >>
             ELSE [i \in DOMAIN ws |-> <<k, <<v, Some(ws[i])>>>>])
            \o RDD_leftOuterJoin(Tail(a), b)

\* mutant: the previous window is not reduced in
reduceFunc_noprev(func, filterFunc, a, b) ==
    LET F(x, y) == Apply2(func, x, y)
    IN RDD_reduceByKey(F, b)

\* reduceFunc of reduceByKeyAndWindow(func, invFunc, ..., filterFunc);
\* a is None or <<rdd>>
reduceFunc(func, filterFunc, a, b) ==
    LET F(x, y) == Apply2(func, x, y)
        Keep(kv) == Satisfies(filterFunc, kv)
        rb == RDD_reduceByKey(F, b)
        r == IF a # None THEN RDD_reduceByKey(F, RDD_union(a[1], rb)) ELSE rb
    IN IF filterFunc # NoFunc THEN RDD_filter(Keep, r) ELSE r

\* mutant: an inner join, which drops the keys no leaving batch holds
invReduceFunc_join(func, invFunc, a, b) ==
    LET F(x, y) == Apply2(func, x, y)
        InvOrKeep(kv) == IF kv[2] # None /\ is_not_None(func, kv[2][1])
                         THEN Apply2(invFunc, kv[1], kv[2][1]) ELSE kv[1]
        rb == RDD_reduceByKey(F, b)
        joined == RDD_leftOuterJoin(a, rb)
        HasLeaving(p) == p[2][2] # None
    IN RDD_mapValues(InvOrKeep, RDD_filter(HasLeaving, joined))

\* mutant: a full outer join, which brings in the keys only the leaving
\* batches hold
invReduceFunc_outer(func, invFunc, a, b) ==
    LET F(x, y) == Apply2(func, x, y)
        InvOrKeep(kv) == IF kv[2] # None /\ is_not_None(func, kv[2][1])
                         THEN Apply2(invFunc, kv[1], kv[2][1]) ELSE kv[1]
        rb == RDD_reduceByKey(F, b)
        joined == RDD_leftOuterJoin(a, rb)
    IN RDD_mapValues(InvOrKeep, joined)
       \o SelectSeq(rb, LAMBDA kv : kv[1] \notin KeysOf(a))

\* invReduceFunc of reduceByKeyAndWindow(func, invFunc, ...)
invReduceFunc(func, invFunc, a, b) ==
    LET F(x, y) == Apply2(func, x, y)
        InvOrKeep(kv) == IF kv[2] # None /\ is_not_None(func, kv[2][1])
                         THEN Apply2(invFunc, kv[1], kv[2][1]) ELSE kv[1]
        rb == RDD_reduceByKey(F, b)
        joined == RDD_leftOuterJoin(a, rb)
    IN RDD_mapValues(InvOrKeep, joined)

\* the time of tick t
TimeOf(t) == t * BatchDuration

\* whether the stream n emits at tick t: at the multiples of its slide duration
IsEndPoint(ns, n, t) == ns[n].slide > 0 /\ TimeOf(t) % ns[n].slide = 0

\* the first tick after time x (ms), at least 1
FirstTickAfter(x, t) ==
    CHOOSE i \in 1..(t + 1) :
        /\ TimeOf(i) > x
        /\ \A j \in 1..(i - 1) : TimeOf(j) <= x

\* the last tick at or before time x (ms), 0 when there is none
LastTickUpTo(x, t) ==
    CHOOSE i \in 0..t :
        /\ i = 0 \/ TimeOf(i) <= x
        /\ \A j \in (i + 1)..t : TimeOf(j) > x

\* what the stateless streams emit at tick t, given the batches of the input
\* stream: Slice(ns, hist, n, lo, hi) is the union of what n emits at the
\* ticks lo..hi
RECURSIVE Emit(_, _, _, _), Slice(_, _, _, _, _)
Emit(ns, hist, n, t) ==
    IF ns[n].jkind = "input" THEN hist[t]
    ELSE IF ns[n].jkind = "transformed"
         THEN CallAll(ns[n].func, t, Emit(ns, hist, ns[n].prev[1], t))
    ELSE \* a window: the parent's batches in (time - window, time]
         Slice(ns, hist, ns[n].prev[1], FirstTickAfter(TimeOf(t) - ns[n].window, t), t)

Slice(ns, hist, n, lo, hi) ==
    IF lo > hi THEN <<>>
    ELSE RDD_union(Emit(ns, hist, n, lo), Slice(ns, hist, n, lo + 1, hi))

\* the incremental windowed stream n at tick t, its previous reduced window
\* being prev (None at its first end-point)
ReducedWindowed(ns, hist, n, t, prev) ==
    LET p == ns[n].prev[1]
        now == TimeOf(t)
        w == ns[n].window
        s == ns[n].slide
        \* entering: in (now - w, now] and not in (now - s - w, now - s]
        enterLo == IF prev = None THEN FirstTickAfter(now - w, t)
                   ELSE FirstTickAfter(IF now - s > now - w THEN now - s ELSE now - w, t)
        entering == Slice(ns, hist, p, enterLo, t)
        \* leaving: in (now - s - w, now - s] and not in (now - w, now]
        leaveLo == FirstTickAfter(now - s - w, t)
        leaveHi == LastTickUpTo(IF now - s < now - w THEN now - s ELSE now - w, t)
        leaving == IF prev = None THEN <<>> ELSE Slice(ns, hist, p, leaveLo, leaveHi)
        candidate == reduceFunc(ns[n].func[1], ns[n].func[3], prev, entering)
    IN invReduceFunc(ns[n].func[1], ns[n].func[2], candidate, leaving)

\* the three streams of the evaluation and the calls that construct them
WinGraph(w, s) ==
    LET n0 == <<DStream_init("input", <<>>, BatchDuration, 0)>>
        r1 == window(n0, 1, w, s)
        r2 == reduceByKeyAndWindow(r1.ns, 1, "add", "sub", w, s, NoFunc)
        r3 == reduceByKeyAndWindow(r2.ns, 1, "add", NoFunc, w, s, NoFunc)
    IN [ns |-> r3.ns, window |-> r1.ret, inc |-> r2.ret, naive |-> r3.ret,
        ok |-> r1.result = "ok" /\ r2.result = "ok" /\ r3.result = "ok"]

PositiveArgs == 1..MaxWindow
PositiveSlides == {None} \cup {Some(s) : s \in PositiveArgs}

\* the batches of the input stream: (key, value) pairs
BatchSet ==
    { <<>>,
      << <<1, 1>> >>,
      << <<1, 2>>, <<2, 1>> >>,
      << <<2, 1>>, <<2, 2>> >> }

\* the windowed streams among the nodes
WinNode == WinGraph(winCall.w, winCall.s)

InitWin ==
    /\ \E w \in PositiveArgs, s \in PositiveSlides :
          /\ WinGraph(w, s).ok
          /\ nodes = WinGraph(w, s).ns
          /\ winCall = [w |-> w, s |-> s]
    /\ lastCall = NoCall
    /\ batches = <<>>
    /\ prevR = None
    /\ out = [window |-> None, inc |-> None, naive |-> None]
    /\ stCall = [updateFunc |-> "", initialRDD |-> None]
    /\ stState = None
    /\ emitted = <<>>
    /\ calls = <<>>
    /\ NoRun

\* one tick: the input stream produces batch b and every stream that has an
\* end-point at this tick emits
WinTick(b) ==
    /\ Len(batches) < MaxTicks
    /\ LET hist == Append(batches, b)
           t == Len(hist)
           inc == IF IsEndPoint(nodes, WinNode.inc, t)
                  THEN Some(ReducedWindowed(nodes, hist, WinNode.inc, t, prevR))
                  ELSE None
       IN /\ batches' = hist
          /\ out' = [window |-> IF IsEndPoint(nodes, WinNode.window, t)
                                THEN Some(Emit(nodes, hist, WinNode.window, t))
                                ELSE None,
                     inc |-> inc,
                     naive |-> IF IsEndPoint(nodes, WinNode.naive, t)
                               THEN Some(Emit(nodes, hist, WinNode.naive, t))
                               ELSE None]
          /\ prevR' = IF inc # None THEN inc ELSE prevR
    /\ UNCHANGED <<graphVars, winCall, stVars, runVars>>

NextWin == \E b \in BatchSet : WinTick(b)

SpecWin == InitWin /\ [][NextWin]_vars

(***************************************************************************)
(* invReduceFunc alone: the reduced window so far (one pair per key) and   *)
(* the batches that leave the window are drawn from bounded sets and the   *)
(* function is applied to them once.                                       *)
(***************************************************************************)
\* the functions of the call: sums, and a pair that takes values of any
\* type, None among them
InvFuncPairs == {<<"add", "sub">>, <<"latest", "zero">>}

\* the values of the leaving batches: numbers for operator.add, any Python
\* value for lambda a, b: b
LeavingValues(func) == IF func = "add" THEN {1, 2} ELSE {1, 2, NoneValue}

\* key 1 is in the window and may leave, key 2 is in the window only, key 3
\* is in the leaving batches only
CandidateKeys == {1, 2}
LeavingKeys == {1, 3}

\* the reduced windows: one pair per key, in key order
CandidateMaps ==
    {LET ks == SortedKeys(DOMAIN f) IN [i \in DOMAIN ks |-> <<ks[i], f[ks[i]]>>] :
        f \in UNION {[S -> {1, 2}] : S \in SUBSET CandidateKeys}}

\* the leaving batches of a call, as one Dataset
LeavingBatches(func) ==
    UNION {[1..n -> LeavingKeys \X LeavingValues(func)] : n \in 0..MaxLeaving}

InitInv ==
    /\ nodes = <<DStream_init("input", <<>>, BatchDuration, 0)>>
    /\ lastCall = NoCall
    /\ \E fs \in InvFuncPairs :
          /\ winCall = [func |-> fs[1], invFunc |-> fs[2]]
          /\ \E b \in LeavingBatches(fs[1]) : batches = <<b>>
    /\ \E a \in CandidateMaps : prevR = Some(a)
    /\ out = None
    /\ stCall = [updateFunc |-> "", initialRDD |-> None]
    /\ stState = None
    /\ emitted = <<>>
    /\ calls = <<>>
    /\ NoRun

\* the JVM stream calls invReduceFunc(t, a, b)
InvReduce ==
    /\ out = None
    /\ out' = Some(invReduceFunc(winCall.func, winCall.invFunc, prevR[1], batches[1]))
    /\ UNCHANGED <<graphVars, batches, winCall, prevR, stVars, runVars>>

NextInv == InvReduce

SpecInv == InitInv /\ [][NextInv]_vars

(***************************************************************************)
(* The per-tick evaluation of the operators derived from                   *)
(* reduceByKeyAndWindow: countByWindow, countByValueAndWindow,             *)
(* groupByKeyAndWindow and reduceByKeyAndWindow with a filterFunc.         *)
(* countByWindow and countByValueAndWindow count the elements of           *)
(* stream.map(lambda kv: kv[0]).                                           *)
(***************************************************************************)
DerivedOps == {"countByWindow", "countByValueAndWindow", "groupByKeyAndWindow",
               "reduceByKeyAndWindowInv", "reduceByKeyAndWindow"}

\* the nodes of one derived operator: derived is the stream the call
\* returns, reference the stream window(w, s).count() (countByWindow only)
OpsGraph(op, w, s, filterFunc) ==
    LET n0 == <<DStream_init("input", <<>>, BatchDuration, 0)>>
    IN Bind(map(n0, 1, "fst"), LAMBDA src :
       IF op = "countByWindow"
       THEN Bind(countByWindow(src.ns, src.ret, w, s), LAMBDA d :
            Bind(window(d.ns, src.ret, w, s), LAMBDA win :
            Bind(count(win.ns, win.ret), LAMBDA ref :
            [ns |-> ref.ns, derived |-> d.ret, reference |-> ref.ret,
             ok |-> d.result = "ok" /\ win.result = "ok"])))
       ELSE Bind(IF op = "countByValueAndWindow"
                 THEN countByValueAndWindow(src.ns, src.ret, w, s)
                 ELSE IF op = "groupByKeyAndWindow"
                 THEN groupByKeyAndWindow(n0, 1, w, s)
                 ELSE IF op = "reduceByKeyAndWindowInv"
                 THEN reduceByKeyAndWindow(n0, 1, "add", "sub", w, s, filterFunc)
                 ELSE reduceByKeyAndWindow(n0, 1, "add", NoFunc, w, s, filterFunc),
                 LAMBDA d :
                 [ns |-> d.ns, derived |-> d.ret, reference |-> 0, ok |-> d.result = "ok"]))

OpsNode == OpsGraph(winCall.op, winCall.w, winCall.s, winCall.filterFunc)

\* the incremental stream that n is computed from, 0 when there is none
RECURSIVE ReducedWindowedOf(_, _)
ReducedWindowedOf(ns, n) ==
    IF ns[n].jkind = "reducedWindowed" THEN n
    ELSE IF ns[n].jkind = "transformed" THEN ReducedWindowedOf(ns, ns[n].prev[1])
    ELSE 0

\* what n emits at tick t when the incremental stream it is computed from
\* emits rw
RECURSIVE Downstream(_, _, _, _)
Downstream(ns, n, t, rw) ==
    IF ns[n].jkind = "reducedWindowed" THEN rw
    ELSE CallAll(ns[n].func, t, Downstream(ns, ns[n].prev[1], t, rw))

InitOps ==
    /\ \E op \in DerivedOps, w \in PositiveArgs, s \in PositiveSlides,
          f \in FilterFuncs :
          /\ OpsGraph(op, w, s, f).ok
          /\ op \in {"reduceByKeyAndWindowInv", "reduceByKeyAndWindow"} \/ f = "positive"
          /\ nodes = OpsGraph(op, w, s, f).ns
          /\ winCall = [w |-> w, s |-> s, op |-> op, filterFunc |-> f]
    /\ lastCall = NoCall
    /\ batches = <<>>
    /\ prevR = None
    /\ out = [derived |-> None, reference |-> None]
    /\ stCall = [updateFunc |-> "", initialRDD |-> None]
    /\ stState = None
    /\ emitted = <<>>
    /\ calls = <<>>
    /\ NoRun

\* one tick: the input stream produces batch b and every stream that has an
\* end-point at this tick emits
OpsTick(b) ==
    /\ Len(batches) < MaxTicks
    /\ LET hist == Append(batches, b)
           t == Len(hist)
           d == OpsNode.derived
           rw == ReducedWindowedOf(nodes, d)
           inc == IF rw # 0 /\ IsEndPoint(nodes, rw, t)
                  THEN Some(ReducedWindowed(nodes, hist, rw, t, prevR))
                  ELSE None
       IN /\ batches' = hist
          /\ out' = [derived |-> IF ~IsEndPoint(nodes, d, t) THEN None
                                 ELSE IF rw # 0 THEN Some(Downstream(nodes, d, t, inc[1]))
                                 ELSE Some(Emit(nodes, hist, d, t)),
                     reference |-> IF OpsNode.reference # 0
                                      /\ IsEndPoint(nodes, OpsNode.reference, t)
                                   THEN Some(Emit(nodes, hist, OpsNode.reference, t))
                                   ELSE None]
          /\ prevR' = IF inc # None THEN inc ELSE prevR
    /\ UNCHANGED <<graphVars, winCall, stVars, runVars>>

NextOps == \E b \in BatchSet : OpsTick(b)

SpecOps == InitOps /\ [][NextOps]_vars

(***************************************************************************)
(* The per-tick evaluation of the state stream of updateStateByKey.        *)
(*                                                                         *)
(* reduceFunc is the function updateStateByKey hands to the JVM; the JVM   *)
(* stream calls it at every tick with the state it emitted at the previous *)
(* tick (at the first tick: the initial dataset, or None) and the batch.   *)
(* A state value is a Python value: <<>> is None, <<v>> is the value v.    *)
(***************************************************************************)
UpdateFuncs == {"sum", "expire", "cap"}

\* the state at which "cap" gives its key up
Cap == 3

\* the updateFunc of the call:
\*   sum:    sum(values) + (state or 0)
\*   expire: sum(values) if values else None
\*   cap:    None if sum(values) + (state or 0) >= Cap else that sum
updateFunc(u, vs, st) ==
    LET old == IF st = None THEN 0 ELSE st[1]
    IN IF u = "sum" THEN Some(SumSeq(vs) + old)
       ELSE IF u = "expire" THEN (IF vs = <<>> THEN None ELSE Some(SumSeq(vs)))
       ELSE IF SumSeq(vs) + old >= Cap THEN None ELSE Some(SumSeq(vs) + old)

\* rdd.groupByKey(): (k, the values of k)
RDD_groupByKey(rdd) ==
    LET ks == SortedKeys(KeysOf(rdd))
    IN [i \in DOMAIN ks |-> <<ks[i], ValuesOf(rdd, ks[i])>>]

\* a.cogroup(b): (k, (the values of k in a, the values of k in b)) for every
\* key of a or b
RDD_cogroup(a, b) ==
    LET ks == SortedKeys(KeysOf(a) \cup KeysOf(b))
    IN [i \in DOMAIN ks |-> <<ks[i], <<ValuesOf(a, ks[i]), ValuesOf(b, ks[i])>>>>]

NoState(vs) == <<vs, None>>
ValuesAndState(ab) == <<ab[2], IF Len(ab[1]) > 0 THEN ab[1][1] ELSE None>>
IsNotNone(kv) == kv[2] # None

\* mutant: only the keys of the batch are grouped, a key of the previous
\* state with no new value is left out
stateGroups_batchKeys(a, b) ==
    IF a = None
    THEN RDD_mapValues(NoState, RDD_groupByKey(b))
    ELSE RDD_filter(LAMBDA kv : kv[2][1] # <<>>,
                    RDD_mapValues(ValuesAndState, RDD_cogroup(a[1], b)))

\* the rdd g of reduceFunc: (k, (the new values of k, the state of k or None));
\* a is None or <<the previous state rdd>>
stateGroups(a, b) ==
    IF a = None
    THEN RDD_mapValues(NoState, RDD_groupByKey(b))
    ELSE RDD_mapValues(ValuesAndState, RDD_cogroup(a[1], b))

\* mutant: the keys updateFunc gives up are not filtered out
stateReduceFunc_nofilter(u, a, b) ==
    LET Update(vs_s) == updateFunc(u, vs_s[1], vs_s[2])
    IN RDD_mapValues(Update, stateGroups(a, b))

\* mutant: the previous state is not cogrouped in
stateReduceFunc_noprev(u, a, b) ==
    LET Update(vs_s) == updateFunc(u, vs_s[1], vs_s[2])
    IN RDD_filter(IsNotNone, RDD_mapValues(Update, stateGroups(None, b)))

\* mutant: updateFunc is applied to each pair of the batch, not to the
\* grouped values of a key
stateReduceFunc_perPair(u, a, b) ==
    LET Update(v) == updateFunc(u, <<v>>, None)
    IN RDD_filter(IsNotNone, RDD_mapValues(Update, b))

\* reduceFunc of updateStateByKey(updateFunc)
stateReduceFunc(u, a, b) ==
    LET Update(vs_s) == updateFunc(u, vs_s[1], vs_s[2])
    IN RDD_filter(IsNotNone, RDD_mapValues(Update, stateGroups(a, b)))

\* the calls of updateFunc that reduceFunc makes, one for each element i of
\* g: key, values, state, result
updateCalls(u, a, b) ==
    LET g == stateGroups(a, b)
    IN {[i |-> i, k |-> g[i][1], vs |-> g[i][2][1], st |-> g[i][2][2],
         r |-> updateFunc(u, g[i][2][1], g[i][2][2])] : i \in DOMAIN g}

\* updateStateByKey(updateFunc, initialRDD=...): the initial state handed to
\* the JVM stream; initialRDD is None or <<a list of (key, state)>>
initialState(initialRDD) ==
    IF initialRDD # None /\ initialRDD[1] # <<>> THEN Some(initialRDD[1]) ELSE None

\* mutant: the node is a TransformedDStream holding reduceFunc
updateStateByKey_asTransformed(ns, self, initialRDD) ==
    Ok(Append(ns, [TransformedDStream_init(ns, self, "reduceFunc")
                      EXCEPT !.jkind = "state"]),
       Len(ns) + 1)

\* DStream.updateStateByKey(updateFunc, numPartitions, initialRDD): the node,
\* a plain DStream over PythonStateDStream(self._jdstream, jreduceFunc), which
\* holds reduceFunc; arg_prev records the stream of the call
updateStateByKey(ns, self, initialRDD) ==
    Ok(Append(ns, [DStream_init("state", <<self>>, ns[self].slide, 0)
                      EXCEPT !.func = <<"reduceFunc">>, !.arg_prev = self]),
       Len(ns) + 1)

InitialRDDs == {None, Some(<<>>), Some(<< <<1, Some(5)>> >>),
                Some(<< <<1, Some(1)>>, <<1, Some(2)>> >>)}

InitState ==
    /\ nodes = updateStateByKey(<<DStream_init("input", <<>>, BatchDuration, 0)>>, 1, None).ns
    /\ lastCall = NoCall
    /\ batches = <<>>
    /\ winCall = [w |-> 0, s |-> None]
    /\ prevR = None
    /\ out = [window |-> None, inc |-> None, naive |-> None]
    /\ \E u \in UpdateFuncs, i \in InitialRDDs :
          /\ stCall = [updateFunc |-> u, initialRDD |-> i]
          /\ stState = initialState(i)
    /\ emitted = <<>>
    /\ calls = <<>>
    /\ NoRun

\* one tick of the state stream: the input stream produces batch b
StateTick(b) ==
    /\ Len(batches) < MaxTicks
    /\ LET new == stateReduceFunc(stCall.updateFunc, stState, b)
       IN /\ stState' = Some(new)
          /\ emitted' = Append(emitted, new)
    /\ calls' = Append(calls, updateCalls(stCall.updateFunc, stState, b))
    /\ batches' = Append(batches, b)
    /\ UNCHANGED <<graphVars, winVars, stCall, runVars>>

NextState == \E b \in BatchSet : StateTick(b)

SpecState == InitState /\ [][NextState]_vars

(***************************************************************************)
(* The graph with state streams: transform, updateStateByKey, cache and    *)
(* checkpoint calls in any order.                                          *)
(***************************************************************************)
UpdateStateByKey(n) ==
    /\ Len(nodes) < MaxNodes
    /\ LET r == updateStateByKey(nodes, n, None)
       IN /\ nodes' = r.ns
          /\ lastCall' = CallRec("updateStateByKey", n, 0, 0, None, r)
    /\ UNCHANGED <<batches, winVars, stVars, runVars>>

NextStateGraph ==
    \/ \E n \in DOMAIN nodes, f \in UserFuncs : Transform(n, f)
    \/ \E n \in DOMAIN nodes : UpdateStateByKey(n)
    \/ \E n \in DOMAIN nodes : Cache(n)
    \/ \E n \in DOMAIN nodes : Checkpoint(n)

SpecStateGraph == Init /\ [][NextStateGraph]_vars

(***************************************************************************)
(* transform and transformWith with functions of every arity, on operands  *)
(* of every kind and flag.                                                 *)
(***************************************************************************)
BuildRec(op, self, other, func, r) ==
    [op |-> op, self |-> self, other |-> other, func |-> func,
     result |-> r.result, ret |-> r.ret, before |-> Len(nodes)]

BuildTransform(n, f) ==
    /\ Len(nodes) < MaxCtorNodes
    /\ lastCall.result = "ok"
    /\ LET r == transform(nodes, n, f)
       IN /\ nodes' = r.ns
          /\ lastCall' = BuildRec("transform", n, 0, f, r)
    /\ UNCHANGED <<batches, winVars, stVars, runVars>>

BuildTransformWith(a, b, f) ==
    /\ Len(nodes) < MaxCtorNodes
    /\ lastCall.result = "ok"
    /\ LET r == transformWith(nodes, a, f, b)
       IN /\ nodes' = r.ns
          /\ lastCall' = BuildRec("transformWith", a, b, f, r)
    /\ UNCHANGED <<batches, winVars, stVars, runVars>>

NextBuild ==
    \/ \E n \in DOMAIN nodes, f \in UserFuncs \cup BadArityFuncs : BuildTransform(n, f)
    \/ \E a \in DOMAIN nodes, b \in DOMAIN nodes, f \in TransformWithFuncs :
          BuildTransformWith(a, b, f)
    \/ \E n \in DOMAIN nodes : Cache(n)
    \/ \E n \in DOMAIN nodes : Checkpoint(n)

SpecBuild == Init /\ [][NextBuild]_vars

(***************************************************************************)
(* Construction calls and evaluations in any order.  At a tick the driver  *)
(* evaluates one stream for the batch of the input stream; the JVM stream  *)
(* of a TransformedDStream calls its composed function on the output of    *)
(* its parent, the one of transformWith its function on the outputs of     *)
(* both parents.                                                           *)
(***************************************************************************)
RunFuncs == UserFuncs \cup RaisingFuncs

RunBatches == { << <<1, 1>> >>, << <<1, 2>> >> }

\* the evaluation of stream n at tick t for the batch x: whether it raised,
\* the Dataset, and the number of functions invoked
RECURSIVE Evaluate(_, _, _, _)
Evaluate(ns, n, t, x) ==
    IF ns[n].jkind = "input" THEN [err |-> FALSE, rdd |-> x, invoked |-> 0]
    ELSE IF ns[n].jkind = "transformed"
    THEN LET p == Evaluate(ns, ns[n].prev[1], t, x)
             r == CallComposed(ns[n].func, t, p.rdd)
         IN IF p.err THEN p ELSE [r EXCEPT !.invoked = p.invoked + r.invoked]
    ELSE LET a == Evaluate(ns, ns[n].prev[1], t, x)
             b == Evaluate(ns, ns[n].prev[2], t, x)
         IN IF a.err THEN a
            ELSE IF b.err THEN [b EXCEPT !.invoked = a.invoked + b.invoked]
            ELSE [err |-> FALSE, rdd |-> RDD_union(a.rdd, b.rdd),
                  invoked |-> a.invoked + b.invoked + 1]

RunTransform(n, f) ==
    /\ Len(nodes) < MaxCtorNodes
    /\ LET r == transform(nodes, n, f)
       IN /\ nodes' = r.ns
          /\ lastCall' = BuildRec("transform", n, 0, f, r)
          /\ invoked' = invoked + r.invoked
    /\ UNCHANGED <<batches, winVars, stVars, tickOut, files, sinkOut>>

RunTransformWith(a, b) ==
    /\ Len(nodes) < MaxCtorNodes
    /\ LET r == transformWith(nodes, a, "union", b)
       IN /\ nodes' = r.ns
          /\ lastCall' = BuildRec("transformWith", a, b, "union", r)
          /\ invoked' = invoked + r.invoked
    /\ UNCHANGED <<batches, winVars, stVars, tickOut, files, sinkOut>>

\* one tick: the input stream produces batch b and the driver evaluates n
Tick(n, b) ==
    /\ Len(batches) < MaxTick
    /\ LET t == Len(batches) + 1
           e == Evaluate(nodes, n, t, b)
       IN /\ batches' = Append(batches, b)
          /\ invoked' = invoked + e.invoked
          /\ tickOut' = [node |-> n, t |-> t, batch |-> b, err |-> e.err, rdd |-> e.rdd,
                         invoked |-> e.invoked, size |-> Len(nodes),
                         prevErr |-> tickOut # <<>> /\ tickOut.err,
                         prevNode |-> IF tickOut # <<>> THEN tickOut.node ELSE 0]
    /\ UNCHANGED <<graphVars, winVars, stVars, files, sinkOut>>

NextRun ==
    \/ \E n \in DOMAIN nodes, f \in RunFuncs : RunTransform(n, f)
    \/ \E a \in DOMAIN nodes, b \in DOMAIN nodes : RunTransformWith(a, b)
    \/ \E n \in DOMAIN nodes, b \in RunBatches : Tick(n, b)

SpecRun == Init /\ [][NextRun]_vars

(***************************************************************************)
(* The sink of saveAsTextFiles.  foreachRDD calls it at every tick with    *)
(* the time and the Dataset; after a recovery from a checkpoint it may be  *)
(* called again for a time it was already called for.                      *)
(***************************************************************************)
\* what can go wrong with a write besides an existing destination: nothing,
\* a Java IOException, or an error that is no Py4JJavaError
WriteFaults == {"none", "IOException", "Py4JNetworkError"}

\* rddToFileName(prefix, suffix, t): one path per time
rddToFileName(prefix, suffix, t) == <<prefix, t * BatchDuration, suffix>>

\* rdd.saveAsTextFile(path): the error it raises (type "" when it succeeds)
\* and the paths that exist afterwards
RDD_saveAsTextFile(fs, path, fault) ==
    IF fault = "Py4JNetworkError"
    THEN [type |-> "Py4JNetworkError", java |-> "", files |-> fs]
    ELSE IF fault = "IOException"
    THEN [type |-> "Py4JJavaError", java |-> "IOException", files |-> fs]
    ELSE IF path \in fs
    THEN [type |-> "Py4JJavaError", java |-> "FileAlreadyExistsException", files |-> fs]
    ELSE [type |-> "", java |-> "", files |-> fs \cup {path}]

\* mutant: no error of the write is caught
saveAsTextFile_nocatch(fs, prefix, suffix, t, fault) ==
    LET w == RDD_saveAsTextFile(fs, rddToFileName(prefix, suffix, t), fault)
    IN [raised |-> w.type, files |-> w.files]

\* the function saveAsTextFile(t, rdd) that saveAsTextFiles(prefix, suffix)
\* hands to foreachRDD: the error it raises ("" when it returns) and the
\* paths that exist afterwards
saveAsTextFile(fs, prefix, suffix, t, fault) ==
    LET w == RDD_saveAsTextFile(fs, rddToFileName(prefix, suffix, t), fault)
    IN IF w.type = "Py4JJavaError" /\ w.java = "FileAlreadyExistsException"
       THEN [raised |-> "", files |-> w.files]
       ELSE [raised |-> w.type, files |-> w.files]

SinkTimes == 1..MaxTicks

InitSink ==
    /\ nodes = <<DStream_init("input", <<>>, BatchDuration, 0)>>
    /\ lastCall = NoCall
    /\ NoTicks

\* one invocation of the sink for time t
Sink(t, fault) ==
    /\ LET r == saveAsTextFile(files, "out", "txt", t, fault)
       IN /\ files' = r.files
          /\ sinkOut' = [t |-> t, existed |-> rddToFileName("out", "txt", t) \in files,
                         fault |-> fault, raised |-> r.raised]
    /\ UNCHANGED <<graphVars, batches, winVars, stVars, invoked, tickOut>>

NextSink == \E t \in SinkTimes, fault \in WriteFaults : Sink(t, fault)

SpecSink == InitSink /\ [][NextSink]_vars

(***************************************************************************)
(* The slide duration of the windowed streams when slideDuration is left   *)
(* out, on streams whose batch duration is no whole number of seconds.     *)
(***************************************************************************)
\* batch durations (ms): StreamingContext(sc, 1), (sc, 1.0051), (sc, 2.0101)
FractionalRootDurations == {jduration(1), 1005, 2010}

\* window durations (whole seconds) that are multiples of all of them
CommonWindows == {201 * k : k \in 1..MaxWindow}

InitSlide ==
    /\ \E d \in FractionalRootDurations : nodes = <<DStream_init("input", <<>>, d, 0)>>
    /\ lastCall = NoCall
    /\ NoTicks

NextSlide ==
    \/ \E n \in DOMAIN nodes : Map(n)
    \/ \E n \in DOMAIN nodes, w \in CommonWindows : Window(n, w, None)
    \/ \E n \in DOMAIN nodes, hasInv \in BOOLEAN, w \in CommonWindows :
          ReduceByKeyAndWindow(n, hasInv, w, None)

SpecSlide == InitSlide /\ [][NextSlide]_vars

(***************************************************************************)
(* What a node emits at tick t when the root batch is x: the JVM stream    *)
(* built by TransformedDStream._jdstream applies self.func to the output   *)
(* of self.prev.                                                           *)
(***************************************************************************)
RECURSIVE Output(_, _, _)
Output(n, t, x) ==
    IF nodes[n].cls = "TransformedDStream"
    THEN CallAll(nodes[n].func, t, Output(nodes[n].prev[1], t, x))
    ELSE x

Ticks == 1..MaxTick
SampleBatches == {<<<<1, 1>>, <<1, 2>>, <<2, 3>>>>, <<<<2, 5>>>>}

(***************************************************************************)
(* Statements about the graph (Spec).                                      *)
(***************************************************************************)
IsTransformed(n) == nodes[n].cls = "TransformedDStream"

\* C1: fusion never folds across a cached or checkpointed node, in whatever
\* order transform, cache, persist and checkpoint are called: every flagged
\* transform node that a transform was constructed on is still the parent of
\* that transform.
C1_NeverFoldsAcrossFlagged ==
    \A c \in DOMAIN nodes :
        (/\ IsTransformed(c)
         /\ IsTransformed(nodes[c].arg_prev)
         /\ IsFlagged(nodes[nodes[c].arg_prev]))
        => nodes[c].prev = <<nodes[c].arg_prev>>

\* the functions of the chain a node was constructed by, applied one by one
\* in construction order, each with the same t, without any folding
RECURSIVE Unfused(_, _, _)
Unfused(n, t, x) ==
    IF IsTransformed(n)
    THEN Call(nodes[n].arg_func, t, Unfused(nodes[n].arg_prev, t, x))
    ELSE x

\* C3: fusion transparency: at every tick the output of every transform node
\* equals the functions of its chain applied in construction order to the
\* root's batch of that tick.
C3_FusionTransparent ==
    \A n \in DOMAIN nodes : \A t \in Ticks : \A x \in SampleBatches :
        Output(n, t, x) = Unfused(n, t, x)

\* C3 witness: three transforms, not all the same function, folded into one node
C3_Witness ==
    \E n \in DOMAIN nodes :
        /\ Len(nodes[n].func) = 3
        /\ nodes[n].func[1] # nodes[n].func[2]
        /\ nodes[n].prev = <<1>>

(***************************************************************************)
(* Statements about the validating construction calls (SpecCtor).          *)
(***************************************************************************)
WindowOps == {"window", "reduceByKeyAndWindow", "reduceByKeyAndWindowInv"}

\* x is an integer multiple of d
IsMultiple(x, d) == \E k \in (0 - 4 * (MaxWindow + 1))..(4 * (MaxWindow + 1)) : x = k * d

BaseSlide == nodes[lastCall.self].slide

\* C4: constructing a window (window or reduceByKeyAndWindow) on a stream of
\* slide duration baseSlide succeeds iff windowDuration is a multiple of
\* baseSlide and slideDuration is None or a multiple of baseSlide; otherwise
\* the call raises and returns no node.
C4_WindowSucceedsIffMultiples ==
    (lastCall.op \in WindowOps /\ BaseSlide # 0) =>
        /\ lastCall.result = "ok" <=>
              /\ IsMultiple(lastCall.w * 1000, BaseSlide)
              /\ lastCall.s = None \/ IsMultiple(lastCall.s[1] * 1000, BaseSlide)
        /\ lastCall.result = "ok" => lastCall.ret = Len(nodes) /\ lastCall.ret > lastCall.before
        /\ lastCall.result # "ok" => lastCall.result = "ValueError" /\ Len(nodes) = lastCall.before

\* C4 witness: a windowed reduction rejected for its slide duration alone
C4_Witness ==
    /\ lastCall.op = "reduceByKeyAndWindowInv"
    /\ lastCall.result = "ValueError"
    /\ BaseSlide > 0
    /\ IsMultiple(lastCall.w * 1000, BaseSlide)
    /\ lastCall.s # None

\* C5: a window whose windowDuration or slideDuration is zero or negative is
\* rejected with a construction-time error.
C5_NonPositiveRejected ==
    (/\ lastCall.op \in WindowOps
     /\ \/ lastCall.w <= 0
        \/ lastCall.s # None /\ lastCall.s[1] <= 0)
    => lastCall.result # "ok"

\* C10: union(A, B) returns a new node with the parents (A, B) when A and B
\* have the same slide duration and raises ValueError, creating nothing,
\* when they differ.
C10_UnionIffSameSlide ==
    lastCall.op = "union" =>
        IF nodes[lastCall.self].slide = nodes[lastCall.other].slide
        THEN /\ lastCall.result = "ok"
             /\ lastCall.ret = Len(nodes)
             /\ lastCall.ret = lastCall.before + 1
             /\ nodes[lastCall.ret].cls = "DStream"
             /\ nodes[lastCall.ret].prev = <<lastCall.self, lastCall.other>>
        ELSE /\ lastCall.result = "ValueError"
             /\ lastCall.ret = 0
             /\ Len(nodes) = lastCall.before

\* C10 witness: a union of two streams of different slide durations was refused
C10_Witness ==
    /\ lastCall.op = "union"
    /\ nodes[lastCall.self].slide # nodes[lastCall.other].slide
    /\ lastCall.result = "ValueError"

(***************************************************************************)
(* Statements about the windowed streams (SpecWin).                        *)
(***************************************************************************)
\* the key-to-values map of an rdd of pairs
AsMap(rdd) == [k \in KeysOf(rdd) |-> ValuesOf(rdd, k)]

\* the window of the last tick, from the arguments of the call: with a batch
\* duration of one second a window of w seconds holds the ticks in (t - w, t]
Now == Len(batches)
WindowTicks == {i \in 1..Now : i > Now - winCall.w}
CalledSlide == IF winCall.s = None THEN 1 ELSE winCall.s[1]
AtEndPoint == Now >= 1 /\ Now % CalledSlide = 0

KeysInWindow == UNION {KeysOf(batches[i]) : i \in WindowTicks}

RECURSIVE SumInTicks(_, _)
SumInTicks(k, T) ==
    IF T = {} THEN 0
    ELSE LET i == CHOOSE j \in T : TRUE
         IN SumSeq(ValuesOf(batches[i], k)) + SumInTicks(k, T \ {i})

Occurrences(rdd, p) == Cardinality({j \in DOMAIN rdd : rdd[j] = p})

RECURSIVE OccurrencesInTicks(_, _)
OccurrencesInTicks(p, T) ==
    IF T = {} THEN 0
    ELSE LET i == CHOOSE j \in T : TRUE
         IN Occurrences(batches[i], p) + OccurrencesInTicks(p, T \ {i})

PairsSeen == UNION {{b[j] : j \in DOMAIN b} : b \in BatchSet}

\* C2: with func = add and invFunc = subtract the incremental and the naive
\* reduceByKeyAndWindow emit identical key-to-value maps at every tick,
\* also when all the contributions of a key have left the window.
C2_IncrementalEqualsNaive ==
    /\ out.inc = None <=> out.naive = None
    /\ out.inc # None => AsMap(out.inc[1]) = AsMap(out.naive[1])

\* C2 as amended: both emit at the same ticks; every key that has a value in
\* the window has the same single value in both maps; the naive map holds no
\* other key; a key of the incremental map that has no value in the window
\* was in the previous reduced window and carries the value 0 that the
\* subtraction left.
C2_EqualOnKeysInWindow ==
    /\ out.inc = None <=> out.naive = None
    /\ out.inc # None =>
          /\ KeysOf(out.naive[1]) = KeysInWindow
          /\ KeysInWindow \subseteq KeysOf(out.inc[1])
          /\ \A k \in KeysInWindow :
                /\ Len(ValuesOf(out.inc[1], k)) = 1
                /\ ValuesOf(out.inc[1], k) = ValuesOf(out.naive[1], k)
          /\ \A k \in KeysOf(out.inc[1]) \ KeysInWindow :
                ValuesOf(out.inc[1], k) = <<0>>

\* C2 witness: a key whose values all left the window is still emitted by
\* the incremental stream and not by the naive one
C2_Witness ==
    /\ out.inc # None
    /\ \E k \in KeysOf(out.inc[1]) : k \notin KeysOf(out.naive[1])
    /\ KeysInWindow # {}

\* C8: at each window end-point the window stream emits exactly the union of
\* the parent's batches of the ticks in (t - windowDuration, t], and it emits
\* at the end-points only.
C8_WindowIsUnionOfBatches ==
    /\ Now >= 1 => (out.window # None <=> AtEndPoint)
    /\ out.window # None =>
          \A p \in PairsSeen :
              Occurrences(out.window[1], p) = OccurrencesInTicks(p, WindowTicks)

\* C8 witness: a window of two ticks emitted at the third tick, the first
\* batch having left it
C8_Witness ==
    /\ Now = 3
    /\ winCall = [w |-> 2, s |-> Some(1)]
    /\ batches[1] # <<>> /\ batches[2] # <<>> /\ batches[3] # <<>>
    /\ out.window # None
    /\ Len(out.window[1]) = Len(batches[2]) + Len(batches[3])

\* C9: with func = add and invFunc = subtract the incremental
\* reduceByKeyAndWindow emits, at every output tick and for every key that
\* has a value in the window, the sum of the key's values over the batches
\* of the ticks in (t - windowDuration, t].
C9_IncrementalSums ==
    /\ Now >= 1 => (out.inc # None <=> AtEndPoint)
    /\ out.inc # None =>
          \A k \in KeysInWindow :
              ValuesOf(out.inc[1], k) = <<SumInTicks(k, WindowTicks)>>

\* C9 witness: {k: 1}, {k: 1}, {k: 1} with window 2 and slide 1 gives 2 at
\* the third tick, the first batch having left the window
C9_Witness ==
    /\ Now = 3
    /\ winCall = [w |-> 2, s |-> Some(1)]
    /\ \A i \in 1..3 : batches[i] = << <<1, 1>> >>
    /\ out.inc = Some(<< <<1, 2>> >>)

(***************************************************************************)
(* Statements about the state stream (SpecState).                          *)
(***************************************************************************)
\* the state of key k in a state rdd, None when k has none
StateOf(rdd, k) == IF ValuesOf(rdd, k) = <<>> THEN None ELSE ValuesOf(rdd, k)[1]

\* C6: if updateFunc returns None for key K at tick t, K is absent from the
\* state map emitted at t; at t+1 K is absent too unless the batch of t+1 has
\* values for K, and then updateFunc is called for K with those values and
\* no previous state.
C6_Tombstone ==
    \A t \in 1..Len(emitted) : \A c \in calls[t] :
        c.r = None =>
            /\ c.k \notin KeysOf(emitted[t])
            /\ t + 1 <= Len(emitted) =>
                  IF c.k \in KeysOf(batches[t + 1])
                  THEN \A d \in calls[t + 1] :
                          d.k = c.k => d.st = None /\ d.vs = ValuesOf(batches[t + 1], c.k)
                  ELSE /\ c.k \notin KeysOf(emitted[t + 1])
                       /\ \A d \in calls[t + 1] : d.k # c.k

\* C6 witness: a key that had a state is given up at one tick and gets
\* values again at the next
C6_Witness ==
    \E t \in 1..Len(emitted) : \E c \in calls[t] :
        /\ c.r = None
        /\ c.st # None
        /\ t + 1 <= Len(emitted)
        /\ \E d \in calls[t + 1] : d.k = c.k /\ d.st = None /\ d.r # None

\* the sum of the values of key k in the batches of the ticks 1..t
RECURSIVE TotalUpTo(_, _)
TotalUpTo(k, t) ==
    IF t = 0 THEN 0 ELSE SumSeq(ValuesOf(batches[t], k)) + TotalUpTo(k, t - 1)

KeysUpTo(t) == UNION {KeysOf(batches[i]) : i \in 1..t}

\* C7: for every key, the state at tick t is updateFunc(the key's values in
\* batch t, the state emitted at tick t-1 or absent); with updateFunc =
\* sum(values) + (state or 0) the state of a key at every tick is the sum of
\* all its values over the ticks 1..t.
C7_StateFromPreviousEmitted ==
    \A t \in 1..Len(emitted) :
        LET before == IF t = 1 THEN <<>> ELSE emitted[t - 1]
        IN /\ \A k \in KeysOf(batches[t]) \cup KeysOf(before) \cup KeysOf(emitted[t]) :
                 StateOf(emitted[t], k) =
                     updateFunc(stCall.updateFunc, ValuesOf(batches[t], k), StateOf(before, k))
           /\ stCall.updateFunc = "sum" =>
                 \A k \in KeysUpTo(t) \cup KeysOf(emitted[t]) :
                     StateOf(emitted[t], k) = Some(TotalUpTo(k, t))

\* the initial dataset of the call, empty when none was given
InitialOfCall == IF stCall.initialRDD = None THEN <<>> ELSE stCall.initialRDD[1]

\* C7 as amended: the previous state of the first tick is the initial
\* dataset when one was given; with the sum as updateFunc the state of a key
\* is its initial state, if any, plus the sum of its values over 1..t.
C7_StateFromPreviousOrInitial ==
    \A t \in 1..Len(emitted) :
        LET before == IF t = 1 THEN InitialOfCall ELSE emitted[t - 1]
            start(k) == IF StateOf(InitialOfCall, k) = None THEN 0
                        ELSE StateOf(InitialOfCall, k)[1]
        IN /\ KeysOf(emitted[t]) \subseteq KeysOf(batches[t]) \cup KeysOf(before)
           /\ \A k \in KeysOf(batches[t]) \cup KeysOf(before) :
                 StateOf(emitted[t], k) =
                     updateFunc(stCall.updateFunc, ValuesOf(batches[t], k), StateOf(before, k))
           /\ stCall.updateFunc = "sum" =>
                 \A k \in KeysUpTo(t) \cup KeysOf(InitialOfCall) :
                     StateOf(emitted[t], k) = Some(start(k) + TotalUpTo(k, t))

\* C7 witness: the sum as updateFunc, no initial dataset, key 1 with the
\* value 1 and then the value 2: the states 1 and 3
C7_Witness ==
    /\ stCall = [updateFunc |-> "sum", initialRDD |-> None]
    /\ Len(emitted) >= 2
    /\ ValuesOf(batches[1], 1) = <<1>> /\ ValuesOf(batches[2], 1) = <<2>>
    /\ StateOf(emitted[1], 1) = Some(1)
    /\ StateOf(emitted[2], 1) = Some(3)

(***************************************************************************)
(* The operators derived from reduceByKeyAndWindow.                        *)
(***************************************************************************)
\* the elements of stream.map(lambda kv: kv[0]) in the window
ElementsInWindow == KeysInWindow

\* the number of elements equal to v in the batches of the ticks T of
\* stream.map(lambda kv: kv[0])
CountInTicks(v, T) ==
    Cardinality({ij \in UNION {{<<i, j>> : j \in DOMAIN batches[i]} : i \in T} :
                    batches[ij[1]][ij[2]][1] = v})

\* the values of key k in the batches of the ticks lo..hi, earliest first
RECURSIVE ValuesInTicks(_, _, _)
ValuesInTicks(k, lo, hi) ==
    IF lo > hi THEN <<>>
    ELSE ValuesOf(batches[lo], k) \o ValuesInTicks(k, lo + 1, hi)

FirstWindowTick == IF Now - winCall.w + 1 > 1 THEN Now - winCall.w + 1 ELSE 1

Emitted(x) == {x[i] : i \in DOMAIN x}

\* C12: at every output tick countByWindow(w, s) and window(w, s).count()
\* emit the same dataset, empty windows included.
C12_CountByWindowIsWindowCount ==
    (winCall.op = "countByWindow" /\ Now >= 1) => out.derived = out.reference

\* C13: at every output tick countByValueAndWindow emits no pair whose count
\* is <= 0, and for every value that occurs in the window the pair (value,
\* number of occurrences of the value in the batches of the window).
C13_CountByValueAndWindow ==
    (winCall.op = "countByValueAndWindow" /\ out.derived # None) =>
        /\ \A p \in Emitted(out.derived[1]) : p[2] > 0
        /\ \A v \in ElementsInWindow :
              <<v, CountInTicks(v, WindowTicks)>> \in Emitted(out.derived[1])

\* a value that was counted has left the window while another is counted
C13_Witness ==
    /\ winCall.op = "countByValueAndWindow"
    /\ out.derived # None
    /\ out.derived[1] # <<>>
    /\ \E v \in KeysUpTo(Now) : v \notin ElementsInWindow

\* C14: with a filterFunc, with or without an invFunc, every pair that
\* reduceByKeyAndWindow emits at every tick satisfies filterFunc.
C14_OutputSatisfiesFilterFunc ==
    (winCall.op \in {"reduceByKeyAndWindowInv", "reduceByKeyAndWindow"}
     /\ out.derived # None) =>
        \A p \in Emitted(out.derived[1]) : Satisfies(winCall.filterFunc, p)

\* C15: at every output tick groupByKeyAndWindow emits, for each key, the
\* list of exactly the values of the key in the batches of the window,
\* earliest first, one pair per key.
C15_GroupedValuesFifo ==
    (winCall.op = "groupByKeyAndWindow" /\ out.derived # None) =>
        /\ \A p \in Emitted(out.derived[1]) :
              p[2] = ValuesInTicks(p[1], FirstWindowTick, Now)
        /\ \A k \in KeysInWindow : \E p \in Emitted(out.derived[1]) : p[1] = k
        /\ \A i, j \in DOMAIN out.derived[1] :
              out.derived[1][i][1] = out.derived[1][j][1] => i = j

\* values have left the window and a list holds values of two ticks
C15_Witness ==
    /\ winCall.op = "groupByKeyAndWindow"
    /\ out.derived # None
    /\ winCall.w >= 2
    /\ Now > winCall.w
    /\ \E k \in KeysOf(batches[Now]) :
          /\ ValuesOf(batches[Now - 1], k) # <<>>
          /\ ValuesOf(batches[Now - winCall.w], k) # <<>>

C20_DefaultSlideIsParentSlide ==
    (lastCall.op \in WindowOps /\ lastCall.s = None /\ lastCall.result = "ok") =>
        nodes[lastCall.ret].slide = nodes[lastCall.self].slide

(***************************************************************************)
(* Construction is lazy; transformWith; arity; failed ticks.               *)
(***************************************************************************)
\* C16: a construction call returns a new node distinct from its receiver,
\* leaves the nodes that exist as they are, and invokes no compute
\* function: the number of invocations is unchanged by the call.
C16_ConstructionInvokesNothing ==
    [][(lastCall' # lastCall /\ lastCall'.op \in {"transform", "transformWith"}) =>
          /\ invoked' = invoked
          /\ lastCall'.result = "ok" =>
                /\ lastCall'.ret = Len(nodes) + 1
                /\ lastCall'.ret # lastCall'.self
                /\ Len(nodes') = Len(nodes) + 1
                /\ \A i \in DOMAIN nodes : nodes'[i] = nodes[i]]_vars

\* a node was constructed after a tick had invoked functions
C16_Witness ==
    /\ invoked > 0
    /\ tickOut # <<>>
    /\ lastCall.op \in {"transform", "transformWith"}
    /\ lastCall.result = "ok"
    /\ lastCall.before = tickOut.size
    /\ Len(nodes) = tickOut.size + 1

\* C17: transformWith creates a two-parent node: its parents are (self,
\* other) whatever their kind and flags, its function is composed with no
\* parent's function, and a transform constructed on its result keeps it
\* as its parent.
C17_TransformWithTwoParents ==
    /\ (lastCall.op = "transformWith" /\ lastCall.result = "ok") =>
          /\ nodes[lastCall.ret].prev = <<lastCall.self, lastCall.other>>
          /\ nodes[lastCall.ret].cls = "DStream"
          /\ nodes[lastCall.ret].func = <<>>
    /\ \A n \in DOMAIN nodes :
          (IsTransformed(n) /\ nodes[nodes[n].arg_prev].jkind = "transformed2") =>
              /\ nodes[n].prev = <<nodes[n].arg_prev>>
              /\ nodes[n].func = <<nodes[n].arg_func>>

\* a transform was constructed on the result of a transformWith
C17_Witness ==
    \E n \in DOMAIN nodes :
        /\ IsTransformed(n)
        /\ nodes[nodes[n].arg_prev].jkind = "transformed2"
        /\ nodes[n].prev = <<nodes[n].arg_prev>>

\* C18: transform(func) with a func that takes neither one nor two
\* positional arguments, and transformWith(func, other) with a func that
\* takes neither two nor three, fails at the call and creates no node.
C18_WrongArityRejected ==
    /\ (lastCall.op = "transform" /\ Positional(lastCall.func) \notin {1, 2}) =>
          (lastCall.result # "ok" /\ Len(nodes) = lastCall.before)
    /\ (lastCall.op = "transformWith" /\ Positional(lastCall.func) \notin {2, 3}) =>
          (lastCall.result # "ok" /\ Len(nodes) = lastCall.before)

\* the evaluation of n function by function, as the nodes were constructed:
\* the first function that raises ends it, each function is called once
RECURSIVE UnfusedEvaluate(_, _, _)
UnfusedEvaluate(n, t, x) ==
    IF nodes[n].jkind = "input" THEN [err |-> FALSE, rdd |-> x, invoked |-> 0]
    ELSE IF nodes[n].jkind = "transformed"
    THEN LET p == UnfusedEvaluate(nodes[n].arg_prev, t, x)
         IN IF p.err THEN p
            ELSE IF Raises(nodes[n].arg_func, t, p.rdd)
            THEN [err |-> TRUE, rdd |-> <<>>, invoked |-> p.invoked + 1]
            ELSE [err |-> FALSE, rdd |-> Call(nodes[n].arg_func, t, p.rdd),
                  invoked |-> p.invoked + 1]
    ELSE LET a == UnfusedEvaluate(nodes[n].prev[1], t, x)
             b == UnfusedEvaluate(nodes[n].prev[2], t, x)
         IN IF a.err THEN a
            ELSE IF b.err THEN [b EXCEPT !.invoked = a.invoked + b.invoked]
            ELSE [err |-> FALSE, rdd |-> RDD_union(a.rdd, b.rdd),
                  invoked |-> a.invoked + b.invoked + 1]

TickOutcome ==
    LET u == UnfusedEvaluate(tickOut.node, tickOut.t, tickOut.batch)
    IN /\ tickOut.err = u.err
       /\ tickOut.rdd = u.rdd
       /\ tickOut.invoked = u.invoked

\* C19: when a compute function raises at a tick, the tick fails with the
\* error, no function is called again or after it, the graph is as it was,
\* and the later ticks are evaluated on the same graph.
C19_FailedTickLeavesGraph ==
    [][tickOut' # tickOut => (nodes' = nodes /\ TickOutcome')]_vars

\* a stream of two fused functions was evaluated after its evaluation had
\* failed at the tick before
C19_Witness ==
    /\ tickOut # <<>>
    /\ ~tickOut.err
    /\ tickOut.prevErr
    /\ tickOut.prevNode = tickOut.node
    /\ Len(nodes[tickOut.node].func) >= 2
    /\ tickOut.size = Len(nodes)

(***************************************************************************)
(* Statements about the calls of updateFunc (SpecState).                   *)
(***************************************************************************)
\* the state map updateStateByKey's reduceFunc gets at tick t: the initial
\* dataset at the first tick, the map emitted at t-1 afterwards
StateBefore(t) == IF t = 1 THEN InitialOfCall ELSE emitted[t - 1]

\* C21: at every tick updateFunc is called exactly once for each key of the
\* previous state map or of the batch and for no other key, with the key's
\* values in the batch (the empty list when it has none) and its previous
\* state (None when it has none); at the first tick without an initial
\* dataset the keys called are those of the batch.
C21_UpdateFuncOncePerKey ==
    \A t \in 1..Len(calls) :
        LET ks == KeysOf(StateBefore(t)) \cup KeysOf(batches[t])
        IN /\ {c.k : c \in calls[t]} = ks
           /\ Cardinality(calls[t]) = Cardinality(ks)
           /\ \A c \in calls[t] :
                 /\ c.vs = ValuesOf(batches[t], c.k)
                 /\ c.st = StateOf(StateBefore(t), c.k)
           /\ (t = 1 /\ InitialOfCall = <<>>) =>
                 {c.k : c \in calls[t]} = KeysOf(batches[t])

\* at one tick a key with a state and no new value and a key with new values
\* and no state are both called
C21_Witness ==
    \E t \in 2..Len(calls) :
        /\ \E c \in calls[t] : c.vs = <<>> /\ c.st # None
        /\ \E c \in calls[t] : c.vs # <<>> /\ c.st = None

(***************************************************************************)
(* Statements about invReduceFunc (SpecInv).                               *)
(***************************************************************************)
\* the value of key k in the reduced leaving batches b
LeavingValue(func, b, k) ==
    LET vs == ValuesOf(b, k)
    IN IF func = "add" THEN SumSeq(vs) ELSE vs[Len(vs)]

\* the keys of a Dataset, in its order
KeySeq(rdd) == [i \in DOMAIN rdd |-> rdd[i][1]]

\* C22 as stated: the result of the inverse-reduce step has exactly the keys
\* of the candidate map; a key of the leaving batches gets
\* invFunc(oldValue, leavingValue), a key with no leaving contribution keeps
\* oldValue, a key of the leaving batches only is not introduced.
C22_InvReduceIsLeftOuterJoin ==
    out # None =>
        LET a == prevR[1]
            b == batches[1]
            r == out[1]
        IN /\ KeySeq(r) = KeySeq(a)
           /\ \A i \in DOMAIN a :
                 r[i][2] = IF a[i][1] \in KeysOf(b)
                           THEN Apply2(winCall.invFunc, a[i][2],
                                       LeavingValue(winCall.func, b, a[i][1]))
                           ELSE a[i][2]

\* C22 as amended: a key of the leaving batches gets
\* invFunc(oldValue, leavingValue) when its reduced leaving value is not
\* None; with a leaving value of None it keeps oldValue, as a key with no
\* leaving contribution does.
C22_InvReduceOnNotNone ==
    out # None =>
        LET a == prevR[1]
            b == batches[1]
            r == out[1]
        IN /\ KeySeq(r) = KeySeq(a)
           /\ \A i \in DOMAIN a :
                 r[i][2] = IF a[i][1] \in KeysOf(b)
                              /\ LeavingValue(winCall.func, b, a[i][1]) # NoneValue
                           THEN Apply2(winCall.invFunc, a[i][2],
                                       LeavingValue(winCall.func, b, a[i][1]))
                           ELSE a[i][2]

\* the step was applied to a map with a leaving key and a staying key and to
\* leaving batches with a key the map does not have
C22_Witness ==
    /\ out # None
    /\ KeysOf(prevR[1]) = {1, 2}
    /\ KeysOf(batches[1]) = {1, 3}
    /\ winCall.func = "add"
    /\ out[1][1][2] # prevR[1][1][2]
    /\ out[1][2][2] = prevR[1][2][2]

(***************************************************************************)
(* Statements about the parents and the frame of the graph calls.          *)
(***************************************************************************)
\* the stream the chain of transforms of n was built on
RECURSIVE RootOf(_)
RootOf(n) == IF IsTransformed(n) THEN RootOf(nodes[n].arg_prev) ELSE n

\* C23: after any sequence of transform, cache, persist and checkpoint calls
\* the parent of every transform node is no TransformedDStream or is one
\* that is cached or checkpointed; when no flag is set the parent of every
\* transform node is the stream its chain was built on.
C23_ParentNotPlainTransform ==
    \A n \in DOMAIN nodes :
        IsTransformed(n) =>
            /\ Len(nodes[n].prev) = 1
            /\ \/ ~IsTransformed(nodes[n].prev[1])
               \/ IsFlagged(nodes[nodes[n].prev[1]])
            /\ FlagCount(nodes) = 0 =>
                  (nodes[n].prev[1] = RootOf(n) /\ ~IsTransformed(nodes[n].prev[1]))

\* two transforms were built on a cached or checkpointed transform node, the
\* second folded into the first, and that node is the parent
C23_Witness ==
    \E n \in DOMAIN nodes :
        /\ IsTransformed(n)
        /\ Len(nodes[n].func) = 2
        /\ IsTransformed(nodes[n].prev[1])
        /\ IsFlagged(nodes[nodes[n].prev[1]])
        /\ nodes[n].arg_prev # nodes[n].prev[1]

\* the functions composed into node n
FuncsOf(n) == {nodes[n].func[i] : i \in DOMAIN nodes[n].func}

\* C24: the node updateStateByKey returns is never fused: it is a plain
\* DStream whose parent is the stream of the call and whose function is
\* reduceFunc alone; a transform constructed on it has it as its parent and
\* its own function alone, and no transform node holds reduceFunc.
C24_StateNodeNeverFused ==
    \A n \in DOMAIN nodes :
        /\ nodes[n].jkind = "state" =>
              /\ nodes[n].cls = "DStream"
              /\ nodes[n].prev = <<nodes[n].arg_prev>>
              /\ nodes[n].func = <<"reduceFunc">>
        /\ IsTransformed(n) =>
              /\ "reduceFunc" \notin FuncsOf(n)
              /\ nodes[nodes[n].arg_prev].jkind = "state" =>
                    /\ nodes[n].prev = <<nodes[n].arg_prev>>
                    /\ nodes[n].func = <<nodes[n].arg_func>>

\* a state stream was built on a transform node that has no flag, and a
\* transform on the state stream
C24_Witness ==
    \E n \in DOMAIN nodes :
        /\ IsTransformed(n)
        /\ nodes[nodes[n].arg_prev].jkind = "state"
        /\ IsTransformed(nodes[nodes[n].arg_prev].arg_prev)
        /\ ~IsFlagged(nodes[nodes[nodes[n].arg_prev].arg_prev])
        /\ ~IsFlagged(nodes[nodes[n].arg_prev])

\* every transform built on stream p computes the output of p followed by
\* its own function
ChildrenCompute(p) ==
    \A n \in DOMAIN nodes : \A t \in Ticks : \A x \in SampleBatches :
        (IsTransformed(n) /\ nodes[n].arg_prev = p) =>
            Output(n, t, x) = Call(nodes[n].arg_func, t, Output(p, t, x))

\* C25: the construction of a child transform, fused or not, changes no
\* node that exists (function, parent link, flags), and after it every
\* child of the parent, the new one and the earlier ones, computes the
\* parent's function followed by its own.
C25_ChildLeavesParent ==
    [][Len(nodes') > Len(nodes) =>
          /\ SubSeq(nodes', 1, Len(nodes)) = nodes
          /\ ChildrenCompute(lastCall.self)']_vars

\* two children with different functions were folded into the same parent
C25_Witness ==
    \E n, m \in DOMAIN nodes :
        /\ IsTransformed(n) /\ IsTransformed(m)
        /\ nodes[n].arg_prev = nodes[m].arg_prev
        /\ nodes[n].arg_func # nodes[m].arg_func
        /\ IsTransformed(nodes[n].arg_prev)
        /\ Len(nodes[n].func) = 2 /\ Len(nodes[m].func) = 2

\* C26: cache and persist set is_cached of the node they are called on,
\* checkpoint sets its is_checkpointed; each returns that node and changes
\* nothing else of it and no other node; no call ever resets a flag.
C26_FlagCallsFrame ==
    [][/\ lastCall'.op \in {"cache", "persist"} =>
             /\ nodes' = [nodes EXCEPT ![lastCall'.self].is_cached = TRUE]
             /\ lastCall'.ret = lastCall'.self
       /\ lastCall'.op = "checkpoint" =>
             /\ nodes' = [nodes EXCEPT ![lastCall'.self].is_checkpointed = TRUE]
             /\ lastCall'.ret = lastCall'.self
       /\ \A n \in DOMAIN nodes :
             /\ nodes[n].is_cached => nodes'[n].is_cached
             /\ nodes[n].is_checkpointed => nodes'[n].is_checkpointed]_vars

\* persist was called on a transform node that already has a child
C26_Witness ==
    /\ lastCall.op = "persist"
    /\ IsTransformed(lastCall.self)
    /\ nodes[lastCall.self].is_cached
    /\ \E m \in DOMAIN nodes : IsTransformed(m) /\ nodes[m].arg_prev = lastCall.self

\* C27: the state map emitted at a tick holds at most one entry per key and
\* no entry whose state is None, and a key is in it iff updateFunc returned
\* a state that is not None for the key at that tick.
C27_EmittedMapWellFormed ==
    \A t \in 1..Len(emitted) :
        /\ Len(emitted[t]) = Cardinality(KeysOf(emitted[t]))
        /\ \A i \in DOMAIN emitted[t] : emitted[t][i][2] # None
        /\ KeysOf(emitted[t]) = {c.k : c \in {d \in calls[t] : d.r # None}}

\* at one tick a key with two values in the batch is emitted and another key
\* is given up
C27_Witness ==
    \E t \in 1..Len(emitted) :
        /\ Len(ValuesOf(batches[t], 2)) = 2
        /\ 2 \in KeysOf(emitted[t])
        /\ \E c \in calls[t] : c.r = None /\ c.st # None

(***************************************************************************)
(* Statements about calls that follow a failed call (SpecRetry).           *)
(***************************************************************************)
\* whether the arguments of the last call are valid on the graph
ValidCall ==
    IF lastCall.op = "union"
    THEN nodes[lastCall.self].slide = nodes[lastCall.other].slide
    ELSE /\ IsMultiple(lastCall.w * 1000, BaseSlide)
         /\ lastCall.s = None \/ IsMultiple(lastCall.s[1] * 1000, BaseSlide)

====
